---- MODULE Spec2Model ----
(***************************************************************************)
(* State-machine model of the fundis trading agents: the PositionStore     *)
(* (memory.py), the perpetual agents on Hyperliquid (BTC: sentiment        *)
(* counts, ETH: direction signal), the spot agent on Base (Aerodrome       *)
(* swaps), and the order engine of hyperliquid.py.                         *)
(*                                                                         *)
(* One behaviour is one operator session of the CLI agent menu: an agent   *)
(* is selected once, then run_update / run_unwind are called one at a      *)
(* time.  A call ("tick") is a sequence of steps (pc); the venue is an     *)
(* external party that may change between any two steps.                   *)
(*                                                                         *)
(* Amounts are integers.  Perp amounts are whole USDC; the caps stay below *)
(* 10 so that the float comparison  withdrawable < notional * 1.1  agrees  *)
(* with the integer comparison  10 * withdrawable < 11 * notional.         *)
(* Spot amounts are raw token units (USDC: 6 decimals).                    *)
(* The timestamp column last_updated_at is not modelled.                   *)
(***************************************************************************)
EXTENDS Integers, Sequences, FiniteSets, TLC

(* ------------------------------ bounds --------------------------------- *)
MaxBalance == 3
MaxCap == 2
MaxCount == 1
MaxSzi == 1
MaxSpotUnits == 3
MaxRisk == 1
MaxNonce == 0
MaxQuote == 2
MaxOps == 3

(* ------------------------- program constants --------------------------- *)
DEFAULT_LEVERAGE == 1
USDC_SCALE == 1000000
USDC_DECIMALS == 6
NEEDED == 10
LIQ_THRESHOLD_PCT == 5
BTC_DECIMALS == 4
ETH_DECIMALS == 3

BTC_HL == "SentiChain BTC Agent on Hyperliquid"
ETH_HL == "SentiChain ETH Agent on Hyperliquid"
BTC_BASE == "SentiChain BTC Agent on Base"

Agents == {BTC_HL, ETH_HL, BTC_BASE}
IsPerp(a) == a \in {BTC_HL, ETH_HL}
IsSpot(a) == a = BTC_BASE

TICKER(a) == IF a = ETH_HL THEN "ETH" ELSE "BTC"
COIN(a) == IF a = ETH_HL THEN "ETH" ELSE "BTC"
QUOTE_SYMBOL(a) == "WBTC"

(* ------------------------------ helpers -------------------------------- *)
Min(a, b) == IF a < b THEN a ELSE b

RECURSIVE Pow10(_)
Pow10(n) == IF n = 0 THEN 1 ELSE 10 * Pow10(n - 1)

\* The outcome of one external call: it returns, or it raises.
QueryOutcomes == {"ok", "fail"}

\* Spot USDC balances are modelled in steps of 5 USDC, in raw units.
SpotBalances == {k * 5 * USDC_SCALE : k \in 0..MaxSpotUnits}
PerpBalances == -1..MaxBalance
Caps == 1..MaxCap
Counts == 0..MaxCount
Directions == {"LONG", "SHORT", "NEUTRAL"}
MidPrices == {0, 1, 100000}
LiqPrices == {0, 1, 95000, 96000, 120000}

(* ---------------------------- PositionStore ---------------------------- *)
NoPosition == [none |-> TRUE]

Position(ticker, base, quote, amount, raw, side) ==
    [ticker |-> ticker, base_token |-> base, quote_token |-> quote,
     allocated_amount |-> amount, allocated_amount_raw |-> raw,
     current_position |-> side]

\* The positions table is a set of rows, each the key (the wallet is fixed,
\* so the key is the agent name) and the Position stored under it.
StoreRow(k, p) == [agent_name |-> k, position |-> p]

\* SELECT ... WHERE agent_name = k; fetchone().
get_position(s, k) ==
    IF \E r \in s : r.agent_name = k
    THEN (CHOOSE r \in s : r.agent_name = k).position
    ELSE NoPosition

\* Variant: a plain INSERT, no conflict clause.
upsert_position_insert_only(s, k, p) == s \cup {StoreRow(k, p)}

\* INSERT ... ON CONFLICT(agent_name) DO UPDATE SET every field.
upsert_position(s, k, p) ==
    IF \E r \in s : r.agent_name = k
    THEN {IF r.agent_name = k THEN StoreRow(k, p) ELSE r : r \in s}
    ELSE s \cup {StoreRow(k, p)}

\* Variant: the UPDATE has no WHERE clause.
update_position_side_every_row(s, k, new_side) ==
    {[r EXCEPT !.position.current_position = new_side] : r \in s}

\* UPDATE ... SET current_position = new_side WHERE agent_name = k.
update_position_side(s, k, new_side) ==
    {IF r.agent_name = k
     THEN [r EXCEPT !.position.current_position = new_side]
     ELSE r : r \in s}

VARIABLES
    agent,        \* the agent selected for this session
    store,        \* PositionStore: the rows of the positions table
    hlBalance,    \* Hyperliquid: withdrawable USDC
    hlPos,        \* Hyperliquid: the position in the agent's coin
    usdcRaw,      \* Base: USDC balance of the wallet, raw
    riskRaw,      \* Base: risk-token (WBTC) balance of the wallet, raw
    allowance,    \* Base: router allowance per token symbol
    pc,           \* position of the running call
    op,           \* "update" or "unwind"
    sig,          \* the parsed signal of this tick
    cap,          \* ctx.allocation_usdc of this tick
    side,         \* the tick's local current_state / side
    swap,         \* the swap _perform_swap was called for, and its route
    allocOutcome, \* how _ensure_allocation ended
    allocPrints,  \* ctx.print calls made by _ensure_allocation
    allocQueries, \* venue balance reads made by _ensure_allocation
    writes,       \* PositionStore writes of this tick, in order
    recQuery,     \* outcome of the reconciliation query
    liq,          \* outcome of the liquidation check
    orders,       \* orders / transactions submitted in this tick, in order
    result,       \* the result of the execution step
    raised,       \* an exception left the entry point
    decision,     \* the branch the decision step took
    extChanged,   \* the venue was changed from outside during this tick
    amountsOut,   \* the getAmountsOut answers handed to the route resolver
    env,          \* the call handed to the order engine on its own, and its answers
    conc          \* two ticks running at once: their local state and their venue

venueVars == <<hlBalance, hlPos, usdcRaw, riskRaw, allowance>>
tickVars == <<pc, op, sig, cap, side, swap>>
histVars == <<allocOutcome, allocPrints, allocQueries, writes, recQuery, liq,
              orders, result, raised, decision>>
vars == <<agent, store, venueVars, tickVars, histVars, extChanged, amountsOut,
          env, conc>>

NoSignal == [bullish |-> 0, bearish |-> 0, direction |-> "NONE"]
NoResult == [src |-> "none", success |-> FALSE, status |-> "none"]
NoPos == [has |-> FALSE, szi |-> 0]
NoEnv == [call |-> "none"]
NoConc == [ticks |-> <<>>]
NoSwap == [from |-> "none", amount |-> 0, new_side |-> "none", route |-> 0]

HlPositions == {NoPos} \cup {[has |-> TRUE, szi |-> z] : z \in -1..MaxSzi}

\* The state of a session in which no call has been made yet, but for the
\* PositionStore and the answers of the route resolver.
ConstructedSession ==
    /\ agent \in Agents
    /\ hlBalance \in (IF IsPerp(agent) THEN PerpBalances ELSE {0})
    /\ hlPos = NoPos
    /\ usdcRaw \in (IF IsSpot(agent) THEN SpotBalances ELSE {0})
    /\ riskRaw = 0
    /\ allowance = [t \in {"USDC", "WBTC"} |-> 0]
    /\ pc = "idle"
    /\ op = "none"
    /\ sig = NoSignal
    /\ cap = 1
    /\ side = "none"
    /\ swap = NoSwap
    /\ allocOutcome = "none"
    /\ allocPrints = 0
    /\ allocQueries = 0
    /\ writes = <<>>
    /\ recQuery = "none"
    /\ liq = "none"
    /\ orders = <<>>
    /\ result = NoResult
    /\ raised = FALSE
    /\ decision = "none"
    /\ extChanged = FALSE

\* The state after construction, but for the answers of the route resolver.
Constructed == ConstructedSession /\ store = {}

Init == Constructed /\ amountsOut = <<>> /\ env = NoEnv /\ conc = NoConc

(* ------------------------------ signals -------------------------------- *)
\* BTC perp and spot agents: _sentiment_counts of the parsed events.
\* ETH perp agent: the direction of the parsed TradingSignal; "NONE" stands
\* for a payload that parsed to no signal at all.
Signals(a) ==
    IF a = ETH_HL
    THEN {[bullish |-> 0, bearish |-> 0, direction |-> d] :
             d \in Directions \cup {"NONE"}}
    ELSE {[bullish |-> b, bearish |-> r, direction |-> "NONE"] :
             b \in Counts, r \in Counts}

\* Variant: only the empty count stops the tick, a tie goes on.
PolicyGateTieGoesOn(a, s) ==
    IF a = ETH_HL
    THEN s.direction \in {"LONG", "SHORT"}
    ELSE ~(s.bullish = 0 /\ s.bearish = 0)

\* Variant: every direction the signal carries goes on.
PolicyGateAnyDirection(a, s) ==
    IF a = ETH_HL
    THEN s.direction # "NONE"
    ELSE /\ ~(s.bullish = 0 /\ s.bearish = 0)
         /\ s.bullish # s.bearish

\* The gate in front of _ensure_allocation: TRUE when the tick goes on.
PolicyGate(a, s) ==
    IF a = ETH_HL
    THEN s.direction \in {"LONG", "SHORT"}
    ELSE /\ ~(s.bullish = 0 /\ s.bearish = 0)
         /\ s.bullish # s.bearish

\* Variant: any non-empty count is taken as bullish.
WantLongAnyCount(a, s) ==
    IF a = ETH_HL THEN s.direction = "LONG" ELSE s.bullish + s.bearish > 0

\* Variant: a position found at risk is not held, whatever the signal.
WantLongUnlessAtRisk(a, s) ==
    /\ liq # "at_risk"
    /\ IF a = ETH_HL THEN s.direction = "LONG" ELSE s.bullish > s.bearish

\* The tick wants to be long (entered) rather than flat.
WantLong(a, s) ==
    IF a = ETH_HL THEN s.direction = "LONG" ELSE s.bullish > s.bearish

(* ------------------------------ run_update ----------------------------- *)
StartUpdate ==
    /\ pc = "idle"
    /\ \E key \in BOOLEAN, fetch \in QueryOutcomes, s \in Signals(agent), c \in Caps :
          /\ op' = "update"
          /\ cap' = c
          /\ sig' = IF key /\ fetch = "ok" THEN s ELSE NoSignal
          /\ pc' = IF key /\ fetch = "ok" /\ PolicyGate(agent, s)
                   THEN "alloc" ELSE "done"
    /\ extChanged' = FALSE
    /\ UNCHANGED <<agent, conc, amountsOut, env, store, venueVars, side, swap, histVars>>

(* --------------------------- _ensure_allocation ------------------------ *)
NewPerpPosition(a, c) ==
    Position(TICKER(a), "USDC", COIN(a), c, c * USDC_SCALE, "FLAT")

\* Variant: only a failed read refuses; the balance itself is not looked at.
PerpAllocRefusedOnlyOnError(q, balance) == q = "fail"

\* The perp allocation is refused: the balance read raised, or nothing is there.
PerpAllocRefused(q, balance) == q = "fail" \/ balance <= 0

\* ctx.print calls of one perp _ensure_allocation that found no Position: two
\* up front, then the error, the no-balance message, or the below-cap note
\* (when it applies) and the closing message.
PerpAllocPrints(q, balance, c) ==
    IF PerpAllocRefused(q, balance) THEN 3
    ELSE IF balance < c THEN 4
    ELSE 3

PerpEnsureAllocation ==
    /\ pc = "alloc" /\ IsPerp(agent)
    /\ IF get_position(store, agent) # NoPosition
       THEN /\ allocOutcome' = "exists"
            /\ pc' = "reconcile"
            /\ UNCHANGED <<store, allocPrints, allocQueries, writes>>
       ELSE \E q \in QueryOutcomes :
            /\ allocQueries' = allocQueries + 1
            /\ allocPrints' = allocPrints + PerpAllocPrints(q, hlBalance, cap)
            /\ IF PerpAllocRefused(q, hlBalance)
               THEN /\ allocOutcome' = IF q = "fail" THEN "query_error" ELSE "no_balance"
                    /\ pc' = "done"
                    /\ UNCHANGED <<store, writes>>
               ELSE /\ allocOutcome' = "created"
                    /\ store' = upsert_position(store, agent, NewPerpPosition(agent, cap))
                    /\ writes' = Append(writes, [phase |-> "alloc", op |-> "upsert",
                                                 side |-> "FLAT"])
                    /\ pc' = "reconcile"
    /\ UNCHANGED <<agent, conc, amountsOut, env, decision, venueVars, op, sig, cap, swap, side, recQuery, liq, orders,
                   result, raised, extChanged>>

(* ------------------------ _reconcile_position_state -------------------- *)
get_stored_position(s, k) ==
    IF get_position(s, k) # NoPosition THEN get_position(s, k).current_position
    ELSE "FLAT"

\* Variant: any open position counts as LONG, a short one too.
PerpActualStateAnySize(p) == IF p.has /\ p.szi # 0 THEN "LONG" ELSE "FLAT"

\* Variant: the sign of the size is kept, a short position reads SHORT.
PerpActualStateSigned(p) ==
    IF p.has /\ p.szi > 0 THEN "LONG"
    ELSE IF p.has /\ p.szi < 0 THEN "SHORT"
    ELSE "FLAT"

\* The side the venue reports for a position entry (or none).
PerpActualState(p) == IF p.has /\ p.szi > 0 THEN "LONG" ELSE "FLAT"

\* Variant: every successful query writes the side, drift or not.
reconcile_always_writes(stored, q, p) ==
    IF q = "fail" THEN [side |-> stored, write |-> FALSE]
    ELSE [side |-> PerpActualState(p), write |-> TRUE]

\* Variant: a failed query is taken as "no position" and FLAT is written.
reconcile_fail_flat(stored, q, p) ==
    IF q = "fail" THEN [side |-> "FLAT", write |-> stored # "FLAT"]
    ELSE IF stored # PerpActualState(p)
         THEN [side |-> PerpActualState(p), write |-> TRUE]
         ELSE [side |-> stored, write |-> FALSE]

\* What one call of _reconcile_position_state returns and whether it writes.
reconcile_position_state(stored, q, p) ==
    IF q = "fail" THEN [side |-> stored, write |-> FALSE]
    ELSE IF stored # PerpActualState(p)
         THEN [side |-> PerpActualState(p), write |-> TRUE]
         ELSE [side |-> stored, write |-> FALSE]

PerpReconcile ==
    /\ pc = "reconcile" /\ IsPerp(agent)
    /\ \E q \in QueryOutcomes :
         LET r == reconcile_position_state(get_stored_position(store, agent), q, hlPos)
         IN  /\ recQuery' = q
             /\ side' = r.side
             /\ store' = IF r.write THEN update_position_side(store, agent, r.side)
                         ELSE store
             /\ writes' = IF r.write
                          THEN Append(writes, [phase |-> "reconcile",
                                               op |-> "update_side", side |-> r.side])
                          ELSE writes
             /\ pc' = IF r.side = "LONG" THEN "liq" ELSE "decide"
    /\ UNCHANGED <<agent, conc, amountsOut, env, decision, venueVars, op, sig, cap, swap, allocOutcome, allocPrints,
                   allocQueries, liq, orders, result, raised, extChanged>>

(* ------------------------- check_liquidation_risk ---------------------- *)
\* Variant: a distance of exactly 5% counts as at risk.
check_liquidation_risk_inclusive(p, liqPx, mid) ==
    IF ~p.has \/ p.szi = 0 THEN FALSE
    ELSE IF liqPx = 0 THEN FALSE
    ELSE IF mid <= 0 THEN TRUE
    ELSE IF p.szi > 0 THEN (mid - liqPx) * 100 <= LIQ_THRESHOLD_PCT * mid
    ELSE (liqPx - mid) * 100 <= LIQ_THRESHOLD_PCT * mid

\* p: the venue's position entry, liqPx: its liquidationPx (0: not given),
\* mid: the mid price of the coin (0: not listed).
check_liquidation_risk(p, liqPx, mid) ==
    IF ~p.has \/ p.szi = 0 THEN FALSE
    ELSE IF liqPx = 0 THEN FALSE
    ELSE IF mid <= 0 THEN TRUE
    ELSE IF p.szi > 0 THEN (mid - liqPx) * 100 < LIQ_THRESHOLD_PCT * mid
    ELSE (liqPx - mid) * 100 < LIQ_THRESHOLD_PCT * mid

PerpLiquidationCheck ==
    /\ pc = "liq" /\ IsPerp(agent)
    /\ \E q \in QueryOutcomes, liqPx \in LiqPrices, mid \in MidPrices :
          liq' = IF q = "fail" THEN "error"
                 ELSE IF check_liquidation_risk(hlPos, liqPx, mid) THEN "at_risk"
                 ELSE "safe"
    /\ pc' = "decide"
    /\ UNCHANGED <<agent, conc, amountsOut, env, decision, store, venueVars, op, sig, cap, swap, side, allocOutcome,
                   allocPrints, allocQueries, writes, recQuery, orders, result,
                   raised, extChanged>>

(* ------------------------------ order engine --------------------------- *)
OrderResult(success, status) ==
    [src |-> "order", success |-> success, status |-> status,
     filled_size |-> 0, avg_price |-> 0]

\* One item of the statuses list: a record with the fields it carries.  A
\* filled field holds totalSz and avgPx (either may be missing), an item may
\* carry several fields, or none the classifier knows.
Fills ==
    {[totalSz |-> z, avgPx |-> p] : z \in 1..MaxSzi, p \in {100000}}
    \cup {[oid |-> 1]}

StatusItem(fields, fill) ==
    [f \in fields |-> IF f = "error" THEN "msg"
                      ELSE IF f = "filled" THEN fill
                      ELSE [oid |-> 1]]

StatusItems ==
    {StatusItem(fs, fill) :
        fs \in (SUBSET {"error", "filled", "resting"}) \ {{}}, fill \in Fills}
    \cup {StatusItem({"waitingForFill"}, [oid |-> 1])}

\* Every raw response the classifier is tried on: any top-level status, up
\* to two items.
RawResponses ==
    [status : {"ok", "err"},
     statuses : {<<>>} \cup {<<a>> : a \in StatusItems}
                       \cup {<<a, b>> : a \in StatusItems, b \in StatusItems}]

\* The raw responses a tick's order can get, one per outcome.  status
\* "raise" stands for the submitting call raising instead of returning.
VenueResponses ==
    {[status |-> "err", statuses |-> <<>>], [status |-> "raise", statuses |-> <<>>]}
    \cup {[status |-> "ok", statuses |-> st] :
             st \in {<<>>,
                     <<StatusItem({"error"}, [oid |-> 1])>>,
                     <<StatusItem({"filled"}, [totalSz |-> 1, avgPx |-> 100000])>>,
                     <<StatusItem({"resting"}, [oid |-> 1])>>,
                     <<StatusItem({"waitingForFill"}, [oid |-> 1])>>}}

\* dict.get(name, 0)
GetOrZero(r, name) == IF name \in DOMAIN r THEN r[name] ELSE 0

\* Variant: a response that is not ok is reported under one status of the
\* classifier's own.
parse_order_result_rejected(r) ==
    IF r.status # "ok" THEN OrderResult(FALSE, "rejected")
    ELSE IF r.statuses = <<>> THEN OrderResult(FALSE, "no_statuses")
    ELSE IF "error" \in DOMAIN r.statuses[1] THEN OrderResult(FALSE, "error")
    ELSE IF "filled" \in DOMAIN r.statuses[1]
    THEN [OrderResult(TRUE, "filled") EXCEPT
             !.filled_size = GetOrZero(r.statuses[1].filled, "totalSz"),
             !.avg_price = GetOrZero(r.statuses[1].filled, "avgPx")]
    ELSE IF "resting" \in DOMAIN r.statuses[1] THEN OrderResult(TRUE, "resting")
    ELSE OrderResult(FALSE, "unknown")

\* Variant: a fill is looked for before an error.
parse_order_result_filled_first(r) ==
    IF r.status # "ok" THEN OrderResult(FALSE, r.status)
    ELSE IF r.statuses = <<>> THEN OrderResult(FALSE, "no_statuses")
    ELSE IF "filled" \in DOMAIN r.statuses[1]
    THEN [OrderResult(TRUE, "filled") EXCEPT
             !.filled_size = GetOrZero(r.statuses[1].filled, "totalSz"),
             !.avg_price = GetOrZero(r.statuses[1].filled, "avgPx")]
    ELSE IF "error" \in DOMAIN r.statuses[1] THEN OrderResult(FALSE, "error")
    ELSE IF "resting" \in DOMAIN r.statuses[1] THEN OrderResult(TRUE, "resting")
    ELSE OrderResult(FALSE, "unknown")

parse_order_result(r) ==
    IF r.status # "ok" THEN OrderResult(FALSE, r.status)
    ELSE IF r.statuses = <<>> THEN OrderResult(FALSE, "no_statuses")
    ELSE IF "error" \in DOMAIN r.statuses[1] THEN OrderResult(FALSE, "error")
    ELSE IF "filled" \in DOMAIN r.statuses[1]
    THEN [OrderResult(TRUE, "filled") EXCEPT
             !.filled_size = GetOrZero(r.statuses[1].filled, "totalSz"),
             !.avg_price = GetOrZero(r.statuses[1].filled, "avgPx")]
    ELSE IF "resting" \in DOMAIN r.statuses[1] THEN OrderResult(TRUE, "resting")
    ELSE OrderResult(FALSE, "unknown")

\* Variant: the 10% buffer is left out of the margin check.
check_can_open_position_no_buffer(withdrawable, size_usd, leverage) ==
    ~(withdrawable * leverage < size_usd)

\* withdrawable < (size_usd / leverage) * 1.1, over the integers.
check_can_open_position(withdrawable, size_usd, leverage) ==
    ~(withdrawable * leverage * 10 < size_usd * 11)

SizeDecimals(coin) == IF coin = "ETH" THEN ETH_DECIMALS ELSE BTC_DECIMALS

\* round(size_usd / mid_price, decimals), in units of 10^-decimals.
RoundedSize(size_usd, mid, coin) ==
    LET n == size_usd * Pow10(SizeDecimals(coin))
        q == n \div mid
        r == n % mid
    IN  IF 2 * r > mid THEN q + 1
        ELSE IF 2 * r = mid /\ q % 2 = 1 THEN q + 1
        ELSE q

\* e: the venue's answers to the calls made; the two reads outside the
\* engine's own try block (margin, mid price) raise to the caller.
market_open_long_safe(coin, size_usd, withdrawable, e) ==
    IF e.qMargin = "fail"
    THEN [raised |-> TRUE, submitted |-> FALSE, size |-> 0, result |-> NoResult]
    ELSE IF ~check_can_open_position(withdrawable, size_usd, DEFAULT_LEVERAGE)
    THEN [raised |-> FALSE, submitted |-> FALSE, size |-> 0,
          result |-> OrderResult(FALSE, "margin_check_failed")]
    ELSE IF e.qMid = "fail"
    THEN [raised |-> TRUE, submitted |-> FALSE, size |-> 0, result |-> NoResult]
    ELSE IF e.mid <= 0
    THEN [raised |-> FALSE, submitted |-> FALSE, size |-> 0,
          result |-> OrderResult(FALSE, "price_error")]
    ELSE IF RoundedSize(size_usd, e.mid, coin) <= 0
    THEN [raised |-> FALSE, submitted |-> FALSE, size |-> 0,
          result |-> OrderResult(FALSE, "size_error")]
    ELSE [raised |-> FALSE, submitted |-> TRUE,
          size |-> RoundedSize(size_usd, e.mid, coin),
          result |-> IF e.resp.status = "raise" THEN OrderResult(FALSE, "exception")
                     ELSE parse_order_result(e.resp)]

\* Variant: only a short counts as no long position, a size of zero is closed.
market_close_long_safe_zero_closes(p, e) ==
    IF e.qPos = "fail"
    THEN [raised |-> TRUE, submitted |-> FALSE, result |-> NoResult]
    ELSE IF ~p.has
    THEN [raised |-> FALSE, submitted |-> FALSE,
          result |-> OrderResult(TRUE, "no_position")]
    ELSE IF p.szi < 0
    THEN [raised |-> FALSE, submitted |-> FALSE,
          result |-> OrderResult(TRUE, "no_long_position")]
    ELSE [raised |-> FALSE, submitted |-> TRUE,
          result |-> IF e.resp.status = "raise" THEN OrderResult(FALSE, "exception")
                     ELSE parse_order_result(e.resp)]

market_close_long_safe(p, e) ==
    IF e.qPos = "fail"
    THEN [raised |-> TRUE, submitted |-> FALSE, result |-> NoResult]
    ELSE IF ~p.has
    THEN [raised |-> FALSE, submitted |-> FALSE,
          result |-> OrderResult(TRUE, "no_position")]
    ELSE IF p.szi <= 0
    THEN [raised |-> FALSE, submitted |-> FALSE,
          result |-> OrderResult(TRUE, "no_long_position")]
    ELSE [raised |-> FALSE, submitted |-> TRUE,
          result |-> IF e.resp.status = "raise" THEN OrderResult(FALSE, "exception")
                     ELSE parse_order_result(e.resp)]

(* --------------------- _open_long_position / _close_... ---------------- *)
GuardResult(status) == [src |-> "guard", success |-> FALSE, status |-> status]
PrecheckResult(status) == [src |-> "precheck", success |-> TRUE, status |-> status]

OpenEnvs ==
    [qBal : QueryOutcomes, qMargin : QueryOutcomes, qMid : QueryOutcomes,
     mid : MidPrices, resp : VenueResponses]

CloseEnvs == [qInfo : QueryOutcomes, qPos : QueryOutcomes, resp : VenueResponses]

\* Variant: the allocation alone sizes the trade.
trade_amount_allocation(available_balance, allocation) == allocation

trade_amount(available_balance, allocation) == Min(available_balance, allocation)

\* ret: what _open_long_position returns to run_update.
open_long_position(coin, allocation, balance, e) ==
    IF e.qBal = "fail"
    THEN [ret |-> FALSE, submitted |-> FALSE, notional |-> 0, size |-> 0,
          result |-> GuardResult("balance_error")]
    ELSE IF trade_amount(balance, allocation) <= 0
    THEN [ret |-> FALSE, submitted |-> FALSE, notional |-> 0, size |-> 0,
          result |-> GuardResult("no_balance")]
    ELSE LET m == market_open_long_safe(coin, trade_amount(balance, allocation),
                                        balance, e)
         IN  [ret |-> ~m.raised /\ m.result.success,
              submitted |-> m.submitted,
              notional |-> trade_amount(balance, allocation),
              size |-> m.size,
              result |-> IF m.raised THEN GuardResult("engine_raised") ELSE m.result]

\* get_position_info: no entry, or an entry of size 0, is no position.
get_position_info(p) == IF p.has /\ p.szi # 0 THEN p ELSE NoPos

\* Variant: the close reports True whatever the engine answered.
close_long_position_optimistic(p, e) ==
    IF e.qInfo = "ok" /\ get_position_info(p) = NoPos
    THEN [ret |-> TRUE, submitted |-> FALSE, result |-> PrecheckResult("no_position")]
    ELSE IF e.qInfo = "ok" /\ get_position_info(p).szi <= 0
    THEN [ret |-> TRUE, submitted |-> FALSE,
          result |-> PrecheckResult("no_long_position")]
    ELSE LET m == market_close_long_safe(p, e)
         IN  [ret |-> TRUE,
              submitted |-> m.submitted,
              result |-> IF m.raised THEN GuardResult("engine_raised") ELSE m.result]

close_long_position(p, e) ==
    IF e.qInfo = "ok" /\ get_position_info(p) = NoPos
    THEN [ret |-> TRUE, submitted |-> FALSE, result |-> PrecheckResult("no_position")]
    ELSE IF e.qInfo = "ok" /\ get_position_info(p).szi <= 0
    THEN [ret |-> TRUE, submitted |-> FALSE,
          result |-> PrecheckResult("no_long_position")]
    ELSE LET m == market_close_long_safe(p, e)
         IN  [ret |-> ~m.raised /\ m.result.success,
              submitted |-> m.submitted,
              result |-> IF m.raised THEN GuardResult("engine_raised") ELSE m.result]

(* --------------------------- perp decision ----------------------------- *)
\* Variant: the cap of the running tick sizes the trade.
AllocationFromCap(pos, c) == c

\* allocation = pos.allocated_amount if pos else ctx.allocation_usdc
Allocation(pos, c) == IF pos # NoPosition THEN pos.allocated_amount ELSE c

PerpOpen ==
    /\ pc = "decide" /\ IsPerp(agent)
    /\ WantLong(agent, sig) /\ side = "FLAT"
    /\ \E e \in OpenEnvs :
         LET allocation == Allocation(get_position(store, agent), cap)
             o == open_long_position(COIN(agent), allocation, hlBalance, e)
             fill == o.submitted /\ o.result.status = "filled"
         IN  /\ fill => hlPos.szi < MaxSzi
             /\ result' = o.result
             /\ orders' = IF o.submitted
                          THEN Append(orders, [kind |-> "open", is_buy |-> TRUE,
                                               amount |-> o.notional, size |-> o.size])
                          ELSE orders
             /\ store' = IF o.ret THEN update_position_side(store, agent, "LONG")
                         ELSE store
             /\ writes' = IF o.ret
                          THEN Append(writes, [phase |-> "exec", op |-> "update_side",
                                               side |-> "LONG"])
                          ELSE writes
             /\ hlPos' = IF fill THEN [has |-> TRUE, szi |-> hlPos.szi + 1] ELSE hlPos
             /\ hlBalance' = IF fill THEN hlBalance - o.notional ELSE hlBalance
    /\ pc' = "done"
    /\ decision' = "open"
    /\ UNCHANGED <<agent, conc, amountsOut, env, usdcRaw, riskRaw, allowance, op, sig, cap, swap, side,
                   allocOutcome, allocPrints, allocQueries, recQuery, liq, raised,
                   extChanged>>

PerpClose ==
    /\ IsPerp(agent)
    /\ \/ pc = "decide" /\ ~WantLong(agent, sig) /\ side # "FLAT"
       \/ pc = "unwind"
    /\ \E e \in CloseEnvs :
         LET c == close_long_position(hlPos, e)
             fill == c.submitted /\ c.result.status = "filled"
         IN  /\ result' = c.result
             /\ orders' = IF c.submitted
                          THEN Append(orders, [kind |-> "close", is_buy |-> FALSE,
                                               amount |-> 0, size |-> hlPos.szi])
                          ELSE orders
             /\ store' = IF c.ret THEN update_position_side(store, agent, "FLAT")
                         ELSE store
             /\ writes' = IF c.ret
                          THEN Append(writes, [phase |-> "exec", op |-> "update_side",
                                               side |-> "FLAT"])
                          ELSE writes
             /\ hlPos' = IF fill THEN NoPos ELSE hlPos
    /\ pc' = "done"
    /\ decision' = IF pc = "unwind" THEN "unwind" ELSE "close"
    /\ UNCHANGED <<agent, conc, amountsOut, env, hlBalance, usdcRaw, riskRaw, allowance, op, sig, cap, swap, side,
                   allocOutcome, allocPrints, allocQueries, recQuery, liq, raised,
                   extChanged>>

PerpHold ==
    /\ pc = "decide" /\ IsPerp(agent)
    /\ \/ WantLong(agent, sig) /\ side # "FLAT"
       \/ ~WantLong(agent, sig) /\ side = "FLAT"
    /\ pc' = "done"
    /\ decision' = "hold"
    /\ UNCHANGED <<agent, conc, amountsOut, env, store, venueVars, op, sig, cap, swap, side, allocOutcome,
                   allocPrints, allocQueries, writes, recQuery, liq, orders, result,
                   raised, extChanged>>

(* ----------------------------- spot pipeline --------------------------- *)
\* One getAmountsOut answer per route candidate, in the fixed order volatile
\* direct, stable direct, CL direct: -2 the call raised ContractLogicError,
\* -1 it raised anything else, 0 the amounts are empty or end in zero, > 0 the
\* final output amount.
QuoteValues == -2..MaxQuote
Quotes == [1..3 -> QuoteValues]

\* Variant: the candidate that quotes most is accepted.
try_aerodrome_swap_simulation_best_price(quotes) ==
    IF \A j \in 1..3 : quotes[j] <= 0 THEN 0
    ELSE CHOOSE j \in 1..3 :
            /\ \A k \in 1..3 : quotes[k] <= quotes[j]
            /\ \A k \in 1..(j - 1) : quotes[k] < quotes[j]

\* The index of the accepted candidate, 0 when none is viable.
try_aerodrome_swap_simulation(quotes) ==
    IF quotes[1] > 0 THEN 1
    ELSE IF quotes[2] > 0 THEN 2
    ELSE IF quotes[3] > 0 THEN 3
    ELSE 0

\* The external call of _perform_swap that fails after the simulation, if
\* any.  A receipt wait that fails leaves the transaction sent: it is mined
\* later, or it is lost.
FailPoints ==
    {"none", "allowance", "nonce", "gas_price", "approve_send", "approve_wait_lost",
     "approve_wait_mined", "approve_revert", "nonce_refresh", "swap_send",
     "swap_wait_lost", "swap_wait_mined", "swap_revert"}

SwapEnvs == [fail : FailPoints, n0 : 0..MaxNonce]

SwapOutcome(ok, raises, status, txs, allow, swapped) ==
    [ok |-> ok, raised |-> raises, status |-> status, txs |-> txs,
     allowance |-> allow, swapped |-> swapped]

\* Variant: an allowance equal to amount_raw is approved again.
NeedApproveNotAbove(allow, amount) == allow <= amount

\* The approval is needed: the allowance read is below amount_raw.
NeedApprove(allow, amount) == allow < amount

\* The amount the approval transaction approves.
ApproveAmount(amount) == amount

\* Variant: the nonce read before the approval is used for the swap too.
RefreshedNonceStale(n0, approved) == n0

\* The nonce the swap is built with: the pending transaction count read
\* first, or, after a confirmed approval, the count read again.
RefreshedNonce(n0, approved) == IF approved THEN n0 + 1 ELSE n0

\* _perform_swap after a route was found.  amount: amount_raw, allow: the
\* router allowance on chain, e: the answers of the chain.  txs: the
\* transactions sent, allowance: the allowance left on chain, swapped: the
\* swap took effect on chain.
perform_swap(amount, allow, e) ==
    LET needApprove == NeedApprove(allow, amount)
        approveTx == [kind |-> "approve", amount |-> ApproveAmount(amount),
                      nonce |-> e.n0]
        pre == IF needApprove THEN <<approveTx>> ELSE <<>>
        allow1 == IF needApprove THEN ApproveAmount(amount) ELSE allow
        swapTx == [kind |-> "swap", amount |-> amount,
                   nonce |-> RefreshedNonce(e.n0, needApprove)]
    IN  IF e.fail \in {"allowance", "nonce"}
        THEN SwapOutcome(FALSE, FALSE, e.fail, <<>>, allow, FALSE)
        ELSE IF e.fail = "gas_price"
        THEN SwapOutcome(FALSE, TRUE, e.fail, <<>>, allow, FALSE)
        ELSE IF needApprove /\ e.fail = "approve_send"
        THEN SwapOutcome(FALSE, FALSE, e.fail, <<>>, allow, FALSE)
        ELSE IF needApprove /\ e.fail \in {"approve_wait_lost", "approve_revert"}
        THEN SwapOutcome(FALSE, FALSE, e.fail, pre, allow, FALSE)
        ELSE IF needApprove /\ e.fail \in {"approve_wait_mined", "nonce_refresh"}
        THEN SwapOutcome(FALSE, FALSE, e.fail, pre, allow1, FALSE)
        ELSE IF e.fail = "swap_send"
        THEN SwapOutcome(FALSE, FALSE, e.fail, pre, allow1, FALSE)
        ELSE IF e.fail \in {"swap_wait_lost", "swap_revert"}
        THEN SwapOutcome(FALSE, FALSE, e.fail, Append(pre, swapTx), allow1, FALSE)
        ELSE IF e.fail = "swap_wait_mined"
        THEN SwapOutcome(FALSE, FALSE, e.fail, Append(pre, swapTx),
                         allow1 - amount, TRUE)
        ELSE SwapOutcome(TRUE, FALSE, "confirmed", Append(pre, swapTx),
                         allow1 - amount, TRUE)

SwapResult(r) == [src |-> "swap", success |-> r.ok, status |-> r.status]

(* --------------------------- spot: allocation -------------------------- *)
NewSpotPosition(a, c) ==
    Position(TICKER(a), "USDC_ADDRESS", QUOTE_SYMBOL(a), NEEDED,
             NEEDED * Pow10(USDC_DECIMALS), "USDC")

\* The spot allocation is refused: the read raised, or human < needed.
SpotAllocRefused(q, usdc_raw) ==
    q = "fail" \/ usdc_raw < NEEDED * Pow10(USDC_DECIMALS)

\* Variant: nothing is printed when the balance read fails.
SpotAllocPrintsQuietError(q, usdc_raw) == IF q = "fail" THEN 0 ELSE 2

\* ctx.print calls of one spot _ensure_allocation that found no Position: one
\* up front, then the error, the insufficient-balance or the closing message.
SpotAllocPrints(q, usdc_raw) == 2

SpotEnsureAllocation ==
    /\ pc = "alloc" /\ IsSpot(agent)
    /\ IF get_position(store, agent) # NoPosition
       THEN /\ allocOutcome' = "exists"
            /\ pc' = "reconcile"
            /\ UNCHANGED <<store, allocPrints, allocQueries, writes>>
       ELSE \E q \in QueryOutcomes :
            /\ allocQueries' = allocQueries + 1
            /\ allocPrints' = allocPrints + SpotAllocPrints(q, usdcRaw)
            /\ IF SpotAllocRefused(q, usdcRaw)
               THEN /\ allocOutcome' = IF q = "fail" THEN "query_error"
                                       ELSE "insufficient"
                    /\ pc' = "done"
                    /\ UNCHANGED <<store, writes>>
               ELSE /\ allocOutcome' = "created"
                    /\ store' = upsert_position(store, agent, NewSpotPosition(agent, cap))
                    /\ writes' = Append(writes, [phase |-> "alloc", op |-> "upsert",
                                                 side |-> "USDC"])
                    /\ pc' = "reconcile"
    /\ UNCHANGED <<agent, conc, amountsOut, env, decision, venueVars, op, sig, cap, swap, side, recQuery, liq, orders,
                   result, raised, extChanged>>

(* -------------------------- spot: reconciliation ----------------------- *)
\* The side after the two reconciliation branches of run_update_generic.
SpotReconciledSide(stored, quote_raw, quote_symbol) ==
    IF quote_raw <= 0 /\ stored # "USDC" THEN "USDC"
    ELSE IF quote_raw > 0 /\ stored # quote_symbol THEN quote_symbol
    ELSE stored

SpotReconcile ==
    /\ pc = "reconcile" /\ IsSpot(agent)
    /\ \E q \in QueryOutcomes :
         LET stored == get_position(store, agent).current_position
             new == SpotReconciledSide(stored, riskRaw, QUOTE_SYMBOL(agent))
         IN  /\ recQuery' = q
             /\ IF q = "fail"
                THEN /\ pc' = "done"
                     /\ UNCHANGED <<store, writes, side>>
                ELSE /\ side' = new
                     /\ store' = IF new # stored
                                 THEN update_position_side(store, agent, new)
                                 ELSE store
                     /\ writes' = IF new # stored
                                  THEN Append(writes, [phase |-> "reconcile",
                                                       op |-> "update_side",
                                                       side |-> new])
                                  ELSE writes
                     /\ pc' = "decide"
    /\ UNCHANGED <<agent, conc, amountsOut, env, decision, venueVars, op, sig, cap, swap, allocOutcome, allocPrints,
                   allocQueries, liq, orders, result, raised, extChanged>>

(* ----------------------------- spot: decision -------------------------- *)
\* The balance read in front of the swap raised: nothing catches it.
SpotBalanceRaises ==
    /\ result' = GuardResult("balance_raised")
    /\ raised' = TRUE
    /\ pc' = "done"
    /\ UNCHANGED <<store, swap, writes>>

\* The step returns before the pipeline is entered.
SpotNothingToSwap(status) ==
    /\ result' = GuardResult(status)
    /\ pc' = "done"
    /\ UNCHANGED <<store, swap, writes, raised>>

\* _perform_swap is called.
SpotCallSwap(from, amount, new_side) ==
    /\ swap' = [from |-> from, amount |-> amount, new_side |-> new_side, route |-> 0]
    /\ pc' = "simulate"
    /\ UNCHANGED <<store, writes, result, raised>>

\* min(usdc_raw, pos.allocated_amount_raw)
EnterAmount(usdc_raw, allocated_raw) == Min(usdc_raw, allocated_raw)

SpotEnter ==
    /\ pc = "decide" /\ IsSpot(agent)
    /\ sig.bullish > sig.bearish /\ side = "USDC"
    /\ \E q \in QueryOutcomes :
         LET amount == EnterAmount(usdcRaw,
                                   get_position(store, agent).allocated_amount_raw)
         IN  IF q = "fail" THEN SpotBalanceRaises
             ELSE IF amount <= 0 THEN SpotNothingToSwap("nothing_to_swap")
             ELSE SpotCallSwap("USDC", amount, QUOTE_SYMBOL(agent))
    /\ decision' = "enter"
    /\ UNCHANGED <<agent, conc, amountsOut, env, venueVars, op, sig, cap, side, allocOutcome, allocPrints,
                   allocQueries, recQuery, liq, orders, extChanged>>

\* Variant: only a negative balance stops the exit.
NothingToExitOnlyNegative(quote_raw) == quote_raw < 0

\* The risk-token balance read leaves nothing to swap back.
NothingToExit(quote_raw) == quote_raw <= 0

SpotExit ==
    /\ pc = "decide" /\ IsSpot(agent)
    /\ ~(sig.bullish > sig.bearish) /\ side # "USDC"
    /\ \E q \in QueryOutcomes :
         IF q = "fail" THEN SpotBalanceRaises
         ELSE IF NothingToExit(riskRaw) THEN SpotNothingToSwap("nothing_to_exit")
         ELSE SpotCallSwap(QUOTE_SYMBOL(agent), riskRaw, "USDC")
    /\ decision' = "exit"
    /\ UNCHANGED <<agent, conc, amountsOut, env, venueVars, op, sig, cap, side, allocOutcome, allocPrints,
                   allocQueries, recQuery, liq, orders, extChanged>>

SpotHold ==
    /\ pc = "decide" /\ IsSpot(agent)
    /\ \/ sig.bullish > sig.bearish /\ side # "USDC"
       \/ ~(sig.bullish > sig.bearish) /\ side = "USDC"
    /\ pc' = "done"
    /\ decision' = "hold"
    /\ UNCHANGED <<agent, conc, amountsOut, env, store, venueVars, op, sig, cap, side, swap, allocOutcome,
                   allocPrints, allocQueries, writes, recQuery, liq, orders, result,
                   raised, extChanged>>

SpotUnwind ==
    /\ pc = "unwind" /\ IsSpot(agent)
    /\ \E q \in QueryOutcomes :
         IF q = "fail" THEN SpotNothingToSwap("balance_error")
         ELSE IF NothingToExit(riskRaw)
         THEN /\ result' = PrecheckResult("no_balance")
              /\ store' = update_position_side(store, agent, "USDC")
              /\ writes' = Append(writes, [phase |-> "exec", op |-> "update_side",
                                           side |-> "USDC"])
              /\ pc' = "done"
              /\ UNCHANGED <<swap, raised>>
         ELSE SpotCallSwap(QUOTE_SYMBOL(agent), riskRaw, "USDC")
    /\ decision' = "unwind"
    /\ UNCHANGED <<agent, conc, amountsOut, env, venueVars, op, sig, cap, side, allocOutcome, allocPrints,
                   allocQueries, recQuery, liq, orders, extChanged>>

(* ----------------------------- _perform_swap --------------------------- *)
\* Step 1: the route simulation.
SpotSimulate ==
    /\ pc = "simulate"
    /\ \E quotes \in Quotes :
         LET r == try_aerodrome_swap_simulation(quotes)
         IN  /\ swap' = IF r = 0 THEN NoSwap ELSE [swap EXCEPT !.route = r]
             /\ result' = IF r = 0
                          THEN [src |-> "swap", success |-> FALSE, status |-> "no_route"]
                          ELSE result
             /\ pc' = IF r = 0 THEN "done" ELSE "pipeline"
    /\ UNCHANGED <<agent, conc, amountsOut, env, decision, store, venueVars, op, sig, cap, side, allocOutcome,
                   allocPrints, allocQueries, writes, recQuery, liq, orders, raised,
                   extChanged>>

\* Steps 2 and 3: allowance, approval, swap; then the update_side of the
\* caller when the pipeline reports success.
SpotPipeline ==
    /\ pc = "pipeline"
    /\ \E e \in SwapEnvs :
         LET r == perform_swap(swap.amount, allowance[swap.from], e)
         IN  /\ r.swapped /\ swap.from = "USDC" => riskRaw < MaxRisk
             /\ r.swapped /\ swap.from = "USDC" => usdcRaw >= swap.amount
             /\ r.swapped /\ swap.from # "USDC" => riskRaw >= swap.amount
             /\ result' = SwapResult(r)
             /\ raised' = r.raised
             /\ orders' = orders \o r.txs
             /\ allowance' = [allowance EXCEPT ![swap.from] = r.allowance]
             /\ usdcRaw' = IF ~r.swapped THEN usdcRaw
                           ELSE IF swap.from = "USDC" THEN usdcRaw - swap.amount
                           ELSE Min(usdcRaw + 5 * USDC_SCALE,
                                    MaxSpotUnits * 5 * USDC_SCALE)
             /\ riskRaw' = IF ~r.swapped THEN riskRaw
                           ELSE IF swap.from = "USDC" THEN riskRaw + 1
                           ELSE riskRaw - swap.amount
             /\ store' = IF r.ok
                         THEN update_position_side(store, agent, swap.new_side)
                         ELSE store
             /\ writes' = IF r.ok
                          THEN Append(writes, [phase |-> "exec", op |-> "update_side",
                                               side |-> swap.new_side])
                          ELSE writes
    /\ swap' = NoSwap
    /\ pc' = "done"
    /\ UNCHANGED <<agent, conc, amountsOut, env, decision, hlBalance, hlPos, op, sig, cap, side, allocOutcome,
                   allocPrints, allocQueries, recQuery, liq, extChanged>>

(* ------------------------------ run_unwind ----------------------------- *)
UnallocatedSide(a) == IF IsPerp(a) THEN "FLAT" ELSE "USDC"

StartUnwind ==
    /\ pc = "idle"
    /\ op' = "unwind"
    /\ pc' = IF get_position(store, agent) = NoPosition THEN "done"
             ELSE IF get_position(store, agent).current_position = UnallocatedSide(agent)
             THEN "done"
             ELSE "unwind"
    /\ extChanged' = FALSE
    /\ UNCHANGED <<agent, conc, amountsOut, env, store, venueVars, sig, cap, swap, side, histVars>>

(* -------------------------- return to the caller ----------------------- *)
Return ==
    /\ pc = "done"
    /\ pc' = "idle"
    /\ op' = "none"
    /\ sig' = NoSignal
    /\ cap' = 1
    /\ side' = "none"
    /\ swap' = NoSwap
    /\ allocOutcome' = "none"
    /\ allocPrints' = 0
    /\ allocQueries' = 0
    /\ writes' = <<>>
    /\ recQuery' = "none"
    /\ liq' = "none"
    /\ orders' = <<>>
    /\ result' = NoResult
    /\ raised' = FALSE
    /\ decision' = "none"
    /\ extChanged' = FALSE
    /\ UNCHANGED <<agent, conc, amountsOut, env, store, venueVars>>

(* ------------------------------ the venue ------------------------------ *)
\* Somebody else moves the venue: a manual trade, a liquidation, a deposit.
ExternalChange ==
    /\ pc \in {"idle", "decide"}
    /\ IF IsPerp(agent)
       THEN /\ \/ hlBalance' \in PerpBalances /\ UNCHANGED hlPos
               \/ hlPos' \in HlPositions /\ UNCHANGED hlBalance
            /\ UNCHANGED <<usdcRaw, riskRaw, allowance>>
       ELSE /\ \/ usdcRaw' \in SpotBalances /\ UNCHANGED riskRaw
               \/ riskRaw' \in 0..MaxRisk /\ UNCHANGED usdcRaw
            /\ UNCHANGED <<hlBalance, hlPos, allowance>>
    /\ venueVars' # venueVars
    /\ extChanged' = (pc # "idle")
    /\ UNCHANGED <<agent, conc, amountsOut, env, store, tickVars, histVars>>

Next ==
    \/ StartUpdate
    \/ StartUnwind
    \/ PerpEnsureAllocation
    \/ PerpReconcile
    \/ PerpLiquidationCheck
    \/ PerpOpen
    \/ PerpClose
    \/ PerpHold
    \/ SpotEnsureAllocation
    \/ SpotReconcile
    \/ SpotEnter
    \/ SpotExit
    \/ SpotHold
    \/ SpotUnwind
    \/ SpotSimulate
    \/ SpotPipeline
    \/ Return
    \/ ExternalChange

Spec == Init /\ [][Next]_vars

(* ------------------- the PositionStore on its own ---------------------- *)
\* Any caller, any sequence of upsert_position and update_position_side on
\* an empty table; writes is the log of the calls made.
StoreKeys == {BTC_HL, BTC_BASE}
StoreSides == {"FLAT", "LONG"}
StorePositions ==
    {Position(t[1], "USDC", t[1], c, c * USDC_SCALE, t[2]) :
        t \in {<<"BTC", "FLAT">>, <<"ETH", "LONG">>}, c \in Caps}

storeFrame == <<agent, conc, amountsOut, env, venueVars, tickVars, allocOutcome, allocPrints, allocQueries,
                recQuery, liq, orders, result, raised, decision, extChanged>>

StoreInit == Init /\ agent = BTC_HL /\ hlBalance = 0

StoreUpsert ==
    /\ Len(writes) < MaxOps
    /\ \E k \in StoreKeys, p \in StorePositions :
          /\ store' = upsert_position(store, k, p)
          /\ writes' = Append(writes, [phase |-> "store", op |-> "upsert", key |-> k,
                                       row |-> p, side |-> p.current_position])
    /\ UNCHANGED storeFrame

StoreUpdateSide ==
    /\ Len(writes) < MaxOps
    /\ \E k \in StoreKeys, sd \in StoreSides :
          /\ store' = update_position_side(store, k, sd)
          /\ writes' = Append(writes, [phase |-> "store", op |-> "update_side",
                                       key |-> k, row |-> NoPosition, side |-> sd])
    /\ UNCHANGED storeFrame

StoreNext == StoreUpsert \/ StoreUpdateSide

StoreSpec == StoreInit /\ [][StoreNext]_vars

(* ------------------- the route resolver on its own --------------------- *)
\* One call of try_aerodrome_swap_simulation for every combination of answers
\* the three candidates can give; the accepted index lands in swap.route.
routeFrame == <<agent, conc, amountsOut, env, store, venueVars, op, sig, cap, side, histVars,
                extChanged>>

RouteInit ==
    /\ Constructed /\ agent = BTC_BASE /\ usdcRaw = 0
    /\ amountsOut \in Quotes /\ env = NoEnv
    /\ conc = NoConc

RouteResolve ==
    /\ pc = "idle"
    /\ swap' = [NoSwap EXCEPT !.route = try_aerodrome_swap_simulation(amountsOut)]
    /\ pc' = "done"
    /\ UNCHANGED routeFrame

RouteNext == RouteResolve

RouteSpec == RouteInit /\ [][RouteNext]_vars

(* -------------------- the order engine on its own ---------------------- *)
\* One call of market_open_long_safe, market_close_long_safe,
\* parse_order_result or check_liquidation_risk for every
\* combination of arguments, account state and venue answers; the call and
\* its answers are env, what the engine returned is result, raised tells
\* that it raised instead, orders holds the order it submitted.
EngineSizes == 1..MaxBalance
EngineMargins == 0..(MaxBalance + 1)

EngineCalls ==
    {[call |-> "open", coin |-> c, size_usd |-> s, withdrawable |-> w, e |-> e] :
        c \in {"BTC", "ETH"}, s \in EngineSizes, w \in EngineMargins,
        e \in {x \in OpenEnvs : x.qBal = "ok"}}
    \cup {[call |-> "close", coin |-> c, pos |-> p, e |-> e] :
             c \in {"BTC", "ETH"}, p \in HlPositions, e \in {x \in CloseEnvs : x.qInfo = "ok"}}
    \cup {[call |-> "parse", resp |-> r] : r \in RawResponses}
    \cup {[call |-> "risk", pos |-> p, liqPx |-> l, mid |-> m] :
             p \in HlPositions, l \in LiqPrices, m \in MidPrices}

engineFrame == <<agent, conc, amountsOut, env, store, venueVars, op, sig, cap, side, swap,
                 allocOutcome, allocPrints, allocQueries, writes, recQuery,
                 decision, extChanged>>

EngineInit ==
    /\ Constructed /\ agent = BTC_HL /\ hlBalance = 0
    /\ amountsOut = <<>> /\ env \in EngineCalls
    /\ conc = NoConc

EngineOpen ==
    /\ pc = "idle" /\ env.call = "open"
    /\ LET m == market_open_long_safe(env.coin, env.size_usd, env.withdrawable, env.e)
       IN  /\ result' = m.result
           /\ raised' = m.raised
           /\ orders' = IF m.submitted
                        THEN <<[kind |-> "open", is_buy |-> TRUE,
                                amount |-> env.size_usd, size |-> m.size]>>
                        ELSE <<>>
    /\ pc' = "done"
    /\ UNCHANGED <<engineFrame, liq>>

EngineClose ==
    /\ pc = "idle" /\ env.call = "close"
    /\ LET m == market_close_long_safe(env.pos, env.e)
       IN  /\ result' = m.result
           /\ raised' = m.raised
           /\ orders' = IF m.submitted
                        THEN <<[kind |-> "close", is_buy |-> FALSE,
                                amount |-> 0, size |-> env.pos.szi]>>
                        ELSE <<>>
    /\ pc' = "done"
    /\ UNCHANGED <<engineFrame, liq>>

EngineParse ==
    /\ pc = "idle" /\ env.call = "parse"
    /\ result' = parse_order_result(env.resp)
    /\ pc' = "done"
    /\ UNCHANGED <<engineFrame, liq, orders, raised>>

EngineRisk ==
    /\ pc = "idle" /\ env.call = "risk"
    /\ liq' = IF check_liquidation_risk(env.pos, env.liqPx, env.mid) THEN "at_risk"
              ELSE "safe"
    /\ pc' = "done"
    /\ UNCHANGED <<engineFrame, orders, result, raised>>

EngineNext == EngineOpen \/ EngineClose \/ EngineParse \/ EngineRisk

EngineSpec == EngineInit /\ [][EngineNext]_vars

(* --------------------- the signal parsers on their own ----------------- *)
\* The reasoning text of a payload is a sequence of tokens: "F" is a code
\* fence (three backticks), "J" the word json after a fence, " " whitespace,
\* "x" any other text.  Inside an array "b" and "r" are event objects whose
\* sentiment is bullish / bearish; inside an object "L" and "S" are the
\* member  "signal": {"direction": "long" / "short"}  and "n" is the member
\* "signal": 1.  Separating commas are left out.
MaxText == 3

RECURSIVE SeqsUpTo(_, _)
SeqsUpTo(S, n) ==
    IF n = 0 THEN {<<>>}
    ELSE SeqsUpTo(S, n - 1)
         \cup {Append(t, c) : t \in {u \in SeqsUpTo(S, n - 1) : Len(u) = n - 1}, c \in S}

ArrayTokens == {"[", "]", "b", "r", "x"}
ObjectTokens == {"{", "}", "L", "S", "n", "x"}
TextPrefixes == {<<>>, <<"F">>, <<"F", "J">>, <<" ">>, <<"x">>}
TextSuffixes == {<<>>, <<"F">>, <<" ">>, <<"x">>}

ReasoningTexts(a) ==
    {pre \o body \o suf :
        pre \in TextPrefixes, suf \in TextSuffixes,
        body \in SeqsUpTo(IF a = ETH_HL THEN ObjectTokens ELSE ArrayTokens, MaxText)}

\* resp.json(): the envelope has no reasoning field, a null one, or a text.
Payloads(a) ==
    {[field |-> "absent"], [field |-> "null"]}
    \cup {[field |-> "text", reasoning |-> t] : t \in ReasoningTexts(a)}

\* (payload.get("reasoning") or "")
ReasoningOf(p) == IF p.field = "text" THEN p.reasoning ELSE <<>>

RECURSIVE LStrip(_, _)
LStrip(t, cs) == IF t # <<>> /\ Head(t) \in cs THEN LStrip(Tail(t), cs) ELSE t

RECURSIVE RStrip(_, _)
RStrip(t, cs) ==
    IF t # <<>> /\ t[Len(t)] \in cs THEN RStrip(SubSeq(t, 1, Len(t) - 1), cs) ELSE t

\* str.strip(chars)
Strip(t, cs) == RStrip(LStrip(t, cs), cs)

\* str.find / str.rfind: a 0-based index, -1 when the token is not there.
Find(t, c) ==
    IF \E i \in 1..Len(t) : t[i] = c
    THEN (CHOOSE i \in 1..Len(t) : t[i] = c /\ \A j \in 1..(i - 1) : t[j] # c) - 1
    ELSE -1

RFind(t, c) ==
    IF \E i \in 1..Len(t) : t[i] = c
    THEN (CHOOSE i \in 1..Len(t) : t[i] = c /\ \A j \in (i + 1)..Len(t) : t[j] # c) - 1
    ELSE -1

\* stripped[start : end + 1]
Slice(t, start, end) == SubSeq(t, start + 1, end + 1)

JsonTokens(s) == SelectSeq(s, LAMBDA c : c # " ")

Depth(s, i) ==
    Cardinality({j \in 1..i : s[j] = "["}) - Cardinality({j \in 1..i : s[j] = "]"})

\* json.loads accepts the text as one array (of event objects and arrays).
IsJsonArray(s) ==
    LET j == JsonTokens(s)
    IN  /\ Len(j) >= 2
        /\ \A i \in 1..Len(j) : j[i] \in {"[", "]", "b", "r"}
        /\ j[1] = "["
        /\ \A i \in 1..(Len(j) - 1) : Depth(j, i) >= 1
        /\ Depth(j, Len(j)) = 0

\* json.loads accepts the text as one object.
IsJsonObject(s) ==
    LET j == JsonTokens(s)
    IN  /\ Len(j) >= 2
        /\ j[1] = "{"
        /\ j[Len(j)] = "}"
        /\ \A i \in 2..(Len(j) - 1) : j[i] \in {"L", "S", "n"}

Sentiment(c) == IF c = "b" THEN "bullish" ELSE "bearish"

ParsedEvents(exc, events) == [raised |-> exc, events |-> events]

\* Variant: the JSONDecodeError of json.loads is not caught.
parse_reasoning_payload_unguarded(p) ==
    LET reasoning == Strip(ReasoningOf(p), {" "})
        stripped == Strip(reasoning, {"F"})
        start == Find(stripped, "[")
        end == RFind(stripped, "]")
        j == JsonTokens(Slice(stripped, start, end))
    IN  IF reasoning = <<>> THEN ParsedEvents(FALSE, <<>>)
        ELSE IF start = -1 \/ end = -1 \/ end <= start THEN ParsedEvents(FALSE, <<>>)
        ELSE IF ~IsJsonArray(Slice(stripped, start, end)) THEN ParsedEvents(TRUE, <<>>)
        ELSE IF \E i \in 2..(Len(j) - 1) : j[i] = "[" THEN ParsedEvents(TRUE, <<>>)
        ELSE ParsedEvents(FALSE, [i \in 1..(Len(j) - 2) |-> Sentiment(j[i + 1])])

\* _parse_reasoning_payload: the events of the payload; item.get raises on an
\* item that is not an object.
parse_reasoning_payload(p) ==
    LET reasoning == Strip(ReasoningOf(p), {" "})
        stripped == Strip(reasoning, {"F"})
        start == Find(stripped, "[")
        end == RFind(stripped, "]")
        j == JsonTokens(Slice(stripped, start, end))
    IN  IF reasoning = <<>> THEN ParsedEvents(FALSE, <<>>)
        ELSE IF start = -1 \/ end = -1 \/ end <= start THEN ParsedEvents(FALSE, <<>>)
        ELSE IF ~IsJsonArray(Slice(stripped, start, end)) THEN ParsedEvents(FALSE, <<>>)
        ELSE IF \E i \in 2..(Len(j) - 1) : j[i] = "[" THEN ParsedEvents(TRUE, <<>>)
        ELSE ParsedEvents(FALSE, [i \in 1..(Len(j) - 2) |-> Sentiment(j[i + 1])])

\* _sentiment_counts
sentiment_counts(events) ==
    [bullish |-> Cardinality({i \in 1..Len(events) : events[i] = "bullish"}),
     bearish |-> Cardinality({i \in 1..Len(events) : events[i] = "bearish"}),
     direction |-> "NONE"]

\* The markdown markers _parse_trading_signal removes: one fence (with or
\* without the word json) in front, one fence at the end, then whitespace.
StripFence(t) ==
    LET a == IF Len(t) >= 2 /\ t[1] = "F" /\ t[2] = "J" THEN SubSeq(t, 3, Len(t))
             ELSE IF Len(t) >= 1 /\ t[1] = "F" THEN Tail(t)
             ELSE t
        b == IF Len(a) >= 1 /\ a[Len(a)] = "F" THEN SubSeq(a, 1, Len(a) - 1) ELSE a
    IN  Strip(b, {" "})

\* str.upper() of the directions the tokens carry.
Upper(d) == IF d = "long" THEN "LONG" ELSE IF d = "short" THEN "SHORT" ELSE d

\* signal.get("direction", "") of the last "signal" member of the object.
DirectionOf(members) ==
    IF members = <<>> THEN ""
    ELSE IF members[Len(members)] = "L" THEN "long"
    ELSE "short"

ParsedSignal(exc, none, direction) ==
    [raised |-> exc, none |-> none, direction |-> direction]

\* _parse_trading_signal: None, or the signal with its direction; signal.get
\* raises when the "signal" member is not an object.
parse_trading_signal(p) ==
    LET reasoning == Strip(ReasoningOf(p), {" "})
        stripped == StripFence(reasoning)
        start == Find(stripped, "{")
        end == RFind(stripped, "}")
        j == JsonTokens(Slice(stripped, start, end))
        members == SubSeq(j, 2, Len(j) - 1)
    IN  IF reasoning = <<>> THEN ParsedSignal(FALSE, TRUE, "")
        ELSE IF start = -1 \/ end = -1 \/ end <= start THEN ParsedSignal(FALSE, TRUE, "")
        ELSE IF ~IsJsonObject(Slice(stripped, start, end)) THEN ParsedSignal(FALSE, TRUE, "")
        ELSE IF members # <<>> /\ members[Len(members)] = "n"
             THEN ParsedSignal(TRUE, TRUE, "")
        ELSE ParsedSignal(FALSE, FALSE, Upper(DirectionOf(members)))

\* What the head of run_update takes from the payload: whether the parser
\* raised, whether it gave no signal at all, and the signal of the tick.
FetchedSignal(a, p) ==
    IF a = ETH_HL
    THEN LET r == parse_trading_signal(p)
         IN  [raised |-> r.raised,
              empty |-> r.none,
              sig |-> IF r.raised \/ r.none THEN NoSignal
                      ELSE [bullish |-> 0, bearish |-> 0, direction |-> r.direction]]
    ELSE LET r == parse_reasoning_payload(p)
         IN  [raised |-> r.raised,
              empty |-> r.events = <<>>,
              sig |-> IF r.raised THEN NoSignal ELSE sentiment_counts(r.events)]

fetchFrame == <<agent, conc, amountsOut, env, store, venueVars, cap, side, swap,
                allocOutcome, allocPrints, allocQueries, writes, recQuery, liq,
                orders, decision, extChanged>>

FetchInit ==
    /\ Constructed
    /\ hlBalance = (IF IsPerp(agent) THEN MaxBalance ELSE 0)
    /\ usdcRaw = (IF IsSpot(agent) THEN MaxSpotUnits * 5 * USDC_SCALE ELSE 0)
    /\ amountsOut = <<>>
    /\ env \in {[call |-> "fetch", payload |-> p] : p \in Payloads(agent)}
    /\ conc = NoConc

\* The head of run_update with a key configured and the HTTP call answered:
\* the parser runs inside the try block, so a raise ends the tick; then the
\* gate on the signal.
FetchUpdate ==
    /\ pc = "idle" /\ env.call = "fetch"
    /\ LET f == FetchedSignal(agent, env.payload)
       IN  /\ op' = "update"
           /\ sig' = f.sig
           /\ result' = [src |-> "parser", success |-> ~f.raised,
                         status |-> IF f.raised THEN "raised"
                                    ELSE IF f.empty THEN "no_signal"
                                    ELSE "signal"]
           /\ pc' = IF ~f.raised /\ ~f.empty /\ PolicyGate(agent, f.sig)
                    THEN "alloc" ELSE "done"
    /\ raised' = FALSE
    /\ UNCHANGED fetchFrame

FetchNext == FetchUpdate \/ PerpEnsureAllocation \/ SpotEnsureAllocation

FetchSpec == FetchInit /\ [][FetchNext]_vars

(* --------------------------- the agent registry ------------------------ *)
ETH_BASE == "SentiChain ETH Agent on Base"

\* An agent module as the registry sees it: its AGENT_NAME and whether it has
\* the two entry points.
AgentModule(name) == [AGENT_NAME |-> name, run_update |-> TRUE, run_unwind |-> TRUE]

sentichain_eth == AgentModule(ETH_BASE)
sentichain_btc == AgentModule(BTC_BASE)

\* The AGENTS dict, in insertion order: key and module.
AGENTS ==
    <<[key |-> sentichain_eth.AGENT_NAME, module |-> sentichain_eth],
      [key |-> sentichain_btc.AGENT_NAME, module |-> sentichain_btc]>>

list_agent_names == [i \in 1..Len(AGENTS) |-> AGENTS[i].key]

KeyError == [raised |-> "KeyError"]

\* AGENTS[name]
get_agent(name) ==
    IF \E i \in 1..Len(AGENTS) : AGENTS[i].key = name
    THEN (CHOOSE e \in {AGENTS[i] : i \in 1..Len(AGENTS)} : e.key = name).module
    ELSE KeyError

(* ------------------------ two ticks at the same time ------------------- *)
\* Two run_update calls of perp agents, each in its own process with its own
\* connection to the positions table, for one wallet.  A step of a tick is
\* one statement on the table (each commits on its own) or one call of the
\* venue; the steps of the two ticks interleave freely.  Both ticks carry a
\* directional signal and the allocation cap 1.  The venue holds one position
\* per coin and one withdrawable balance for the wallet.  The liquidation
\* check between reconciliation and decision only reads and logs; it is part
\* of the decision step.
ConcKeys == {BTC_HL, ETH_HL}
ConcCoins == {COIN(k) : k \in ConcKeys}
\* Both ticks run with the smallest cap the operator can configure.
ConcCap == CHOOSE c \in Caps : \A d \in Caps : c <= d

ConcTick(key, s) ==
    [key |-> key, sig |-> s, pc |-> "start", stored |-> "none", side |-> "none",
     pending |-> "none", writes |-> <<>>, orders |-> <<>>]

\* The signals the ticks carry: one that wants the long and one that does
\* not, each passing the gate in front of _ensure_allocation.
ConcSignals(k) ==
    {s \in Signals(k) : PolicyGate(k, s) /\ s.bullish + s.bearish <= 1}

\* The rows earlier ticks may have left: per key none, or one of either side.
ConcRows(k) ==
    {{}} \cup {{StoreRow(k, [NewPerpPosition(k, ConcCap) EXCEPT !.current_position = sd])} :
                  sd \in {"FLAT", "LONG"}}

ConcStores == {b \cup e : b \in ConcRows(BTC_HL), e \in ConcRows(ETH_HL)}

\* The answers of the venue to an order of these ticks: the queries in front
\* of the order succeed, the mid price is one at which the size does not
\* round to zero; the order fills, is rejected, or rests.
ConcResponses ==
    {[status |-> "ok", statuses |-> st] :
        st \in {<<StatusItem({"error"}, [oid |-> 1])>>,
                <<StatusItem({"filled"}, [totalSz |-> 1, avgPx |-> 100000])>>,
                <<StatusItem({"resting"}, [oid |-> 1])>>}}

ConcOpenEnvs ==
    {e \in OpenEnvs : /\ e.qBal = "ok" /\ e.qMargin = "ok" /\ e.qMid = "ok"
                      /\ e.mid = 1 /\ e.resp \in ConcResponses}

ConcCloseEnvs ==
    {e \in CloseEnvs : e.qInfo = "ok" /\ e.qPos = "ok" /\ e.resp \in ConcResponses}

\* The venue's entry for the coin of a key.
ConcPos(k) ==
    IF conc.szi[COIN(k)] = 0 THEN NoPos ELSE [has |-> TRUE, szi |-> conc.szi[COIN(k)]]

concFrame == <<agent, amountsOut, env, venueVars, tickVars, histVars, extChanged>>

ConcInit ==
    /\ ConstructedSession /\ agent = BTC_HL /\ hlBalance = 0
    /\ amountsOut = <<>> /\ env = NoEnv
    /\ store \in ConcStores
    /\ \E k1, k2 \in ConcKeys, b \in {0, MaxBalance}, z \in [ConcCoins -> 0..1] :
       \E s1 \in ConcSignals(k1), s2 \in ConcSignals(k2) :
          conc = [ticks |-> <<ConcTick(k1, s1), ConcTick(k2, s2)>>,
                  szi |-> z, bal |-> b, store0 |-> store,
                  first |-> 0, overlap |-> FALSE]

Other(t) == 3 - t

\* The tick t takes a step to the local state next; it is recorded which
\* tick stepped first and whether the two ticks ever ran at the same time.
ConcStep(c, t, next) ==
    [c EXCEPT !.ticks[t] = next,
              !.first = IF c.first = 0 THEN t ELSE c.first,
              !.overlap = c.overlap \/ c.ticks[Other(t)].pc \notin {"start", "done"}]

\* _ensure_allocation: existing = memory.get_position(...).
ConcAllocRead(t) ==
    LET k == conc.ticks[t].key
    IN  /\ conc.ticks[t].pc = "start"
        /\ conc' = ConcStep(conc, t,
                      [conc.ticks[t] EXCEPT
                          !.pc = IF get_position(store, k) # NoPosition
                                 THEN "rec_read" ELSE "alloc_balance"])
        /\ UNCHANGED <<store, concFrame>>

\* _ensure_allocation: the balance query.
ConcAllocBalance(t) ==
    /\ conc.ticks[t].pc = "alloc_balance"
    /\ \E q \in QueryOutcomes :
          conc' = ConcStep(conc, t,
                     [conc.ticks[t] EXCEPT
                         !.pc = IF PerpAllocRefused(q, conc.bal)
                                THEN "done" ELSE "alloc_write"])
    /\ UNCHANGED <<store, concFrame>>

\* _ensure_allocation: memory.upsert_position(pos).
ConcAllocWrite(t) ==
    LET k == conc.ticks[t].key
    IN  /\ conc.ticks[t].pc = "alloc_write"
        /\ store' = upsert_position(store, k, NewPerpPosition(k, ConcCap))
        /\ conc' = ConcStep(conc, t,
                      [conc.ticks[t] EXCEPT
                          !.pc = "rec_read",
                          !.writes = Append(@, [op |-> "upsert", side |-> "FLAT"])])
        /\ UNCHANGED concFrame

\* _reconcile_position_state: stored_state = _get_stored_position(...).
ConcRecRead(t) ==
    LET k == conc.ticks[t].key
    IN  /\ conc.ticks[t].pc = "rec_read"
        /\ conc' = ConcStep(conc, t,
                      [conc.ticks[t] EXCEPT
                          !.pc = "rec_venue",
                          !.stored = get_stored_position(store, k)])
        /\ UNCHANGED <<store, concFrame>>

\* _reconcile_position_state: the venue query and the comparison.
ConcRecVenue(t) ==
    LET k == conc.ticks[t].key
    IN  /\ conc.ticks[t].pc = "rec_venue"
        /\ \E q \in QueryOutcomes :
              LET r == reconcile_position_state(conc.ticks[t].stored, q, ConcPos(k))
              IN  conc' = ConcStep(conc, t,
                             [conc.ticks[t] EXCEPT
                                 !.pc = IF r.write THEN "rec_write" ELSE "decide",
                                 !.side = r.side])
        /\ UNCHANGED <<store, concFrame>>

\* _reconcile_position_state: memory.update_position_side(actual).
ConcRecWrite(t) ==
    LET k == conc.ticks[t].key
    IN  /\ conc.ticks[t].pc = "rec_write"
        /\ store' = update_position_side(store, k, conc.ticks[t].side)
        /\ conc' = ConcStep(conc, t,
                      [conc.ticks[t] EXCEPT
                          !.pc = "decide",
                          !.writes = Append(@, [op |-> "update_side",
                                                side |-> conc.ticks[t].side])])
        /\ UNCHANGED concFrame

\* The decision opens: _open_long_position up to its return.
ConcOpen(t) ==
    LET k == conc.ticks[t].key
    IN  /\ conc.ticks[t].pc = "decide"
        /\ WantLong(k, conc.ticks[t].sig) /\ conc.ticks[t].side = "FLAT"
        /\ \E e \in ConcOpenEnvs :
              LET o == open_long_position(COIN(k),
                                          Allocation(get_position(store, k), ConcCap),
                                          conc.bal, e)
                  fill == o.submitted /\ o.result.status = "filled"
                  next == [conc.ticks[t] EXCEPT
                              !.pc = IF o.ret THEN "side_write" ELSE "done",
                              !.pending = IF o.ret THEN "LONG" ELSE "none",
                              !.orders = IF o.submitted
                                         THEN Append(@, [kind |-> "open", filled |-> fill])
                                         ELSE @]
              IN  /\ fill => conc.szi[COIN(k)] <= MaxSzi
                  /\ conc' = [ConcStep(conc, t, next) EXCEPT
                                 !.szi[COIN(k)] = IF fill THEN @ + 1 ELSE @,
                                 !.bal = IF fill THEN @ - o.notional ELSE @]
        /\ UNCHANGED <<store, concFrame>>

\* The decision closes: _close_long_position up to its return.
ConcClose(t) ==
    LET k == conc.ticks[t].key
    IN  /\ conc.ticks[t].pc = "decide"
        /\ ~WantLong(k, conc.ticks[t].sig) /\ conc.ticks[t].side # "FLAT"
        /\ \E e \in ConcCloseEnvs :
              LET c == close_long_position(ConcPos(k), e)
                  fill == c.submitted /\ c.result.status = "filled"
                  next == [conc.ticks[t] EXCEPT
                              !.pc = IF c.ret THEN "side_write" ELSE "done",
                              !.pending = IF c.ret THEN "FLAT" ELSE "none",
                              !.orders = IF c.submitted
                                         THEN Append(@, [kind |-> "close", filled |-> fill])
                                         ELSE @]
              IN  conc' = [ConcStep(conc, t, next) EXCEPT
                              !.szi[COIN(k)] = IF fill THEN 0 ELSE @]
        /\ UNCHANGED <<store, concFrame>>

\* The decision holds.
ConcHold(t) ==
    LET k == conc.ticks[t].key
    IN  /\ conc.ticks[t].pc = "decide"
        /\ WantLong(k, conc.ticks[t].sig) <=> conc.ticks[t].side # "FLAT"
        /\ conc' = ConcStep(conc, t, [conc.ticks[t] EXCEPT !.pc = "done"])
        /\ UNCHANGED <<store, concFrame>>

\* run_update: memory.update_position_side after the order went through.
ConcSideWrite(t) ==
    LET k == conc.ticks[t].key
    IN  /\ conc.ticks[t].pc = "side_write"
        /\ store' = update_position_side(store, k, conc.ticks[t].pending)
        /\ conc' = ConcStep(conc, t,
                      [conc.ticks[t] EXCEPT
                          !.pc = "done",
                          !.writes = Append(@, [op |-> "update_side",
                                                side |-> conc.ticks[t].pending])])
        /\ UNCHANGED concFrame

ConcNext ==
    \E t \in 1..2 :
       \/ ConcAllocRead(t)
       \/ ConcAllocBalance(t)
       \/ ConcAllocWrite(t)
       \/ ConcRecRead(t)
       \/ ConcRecVenue(t)
       \/ ConcRecWrite(t)
       \/ ConcOpen(t)
       \/ ConcClose(t)
       \/ ConcHold(t)
       \/ ConcSideWrite(t)

ConcSpec == ConcInit /\ [][ConcNext]_vars

(* ------------------------------- claims -------------------------------- *)
\* The Position row of the session's agent, and its side once the row exists.
StoredRow == get_position(store, agent)
StoredSide == StoredRow.current_position

\* The venue's true side.  Perp: LONG iff the signed size is > 0.  Spot: the
\* stable symbol iff the risk-token balance is <= 0.
TrueSide ==
    IF IsPerp(agent)
    THEN (IF hlPos.has /\ hlPos.szi > 0 THEN "LONG" ELSE "FLAT")
    ELSE (IF riskRaw <= 0 THEN "USDC" ELSE QUOTE_SYMBOL(agent))

\* The PositionStore writes of this tick made in one phase.
PhaseWrites(ph) == {i \in DOMAIN writes : writes[i].phase = ph}

\* C1: reconciliation corrects drift.  After a reconciliation whose query
\* succeeded, and before anybody else touches the venue, the stored side and
\* the side the tick goes on with are the venue's true side; whatever the
\* reconciliation wrote is the side it returned; and the decision step
\* branches on that side: it opens / enters only from the unallocated side,
\* closes / exits only from the allocated one.
C1_ReconcileCorrectsDrift ==
    recQuery = "ok" =>
        /\ pc \in {"liq", "decide"} /\ ~extChanged =>
              StoredSide = TrueSide /\ side = TrueSide
        /\ \A i \in PhaseWrites("reconcile") : writes[i].side = side
        /\ decision \in {"open", "enter"} =>
              side = UnallocatedSide(agent) /\ WantLong(agent, sig)
        /\ decision \in {"close", "exit"} =>
              side # UnallocatedSide(agent) /\ ~WantLong(agent, sig)
        /\ decision = "hold" =>
              (side # UnallocatedSide(agent)) = WantLong(agent, sig)

\* Stored LONG, venue flat, bullish signal: the reconciliation wrote FLAT and
\* the same tick submitted an open.
C1_Witness ==
    /\ pc = "done" /\ recQuery = "ok" /\ IsPerp(agent)
    /\ \E i \in PhaseWrites("reconcile") : writes[i].side = "FLAT"
    /\ decision = "open" /\ orders # <<>>

\* C2: reconciliation idempotence.  Wherever reconcile is about to be called,
\* for every stored side and venue state reached, calling it twice in a row
\* against the same venue returns the same side both times and the second
\* call writes nothing.  The venue answers both calls, or the second call's
\* query fails; a venue that fails the first query and answers the second has
\* changed in between.
C2_ReconcileIdempotent ==
    pc = "reconcile" =>
        IF IsPerp(agent)
        THEN \A q1, q2 \in QueryOutcomes :
                LET r1 == reconcile_position_state(
                              get_stored_position(store, agent), q1, hlPos)
                    store1 == IF r1.write
                              THEN update_position_side(store, agent, r1.side)
                              ELSE store
                    r2 == reconcile_position_state(
                              get_stored_position(store1, agent), q2, hlPos)
                IN  (q1 = "ok" \/ q2 = "fail") => r2.side = r1.side /\ ~r2.write
        ELSE LET s1 == SpotReconciledSide(StoredSide, riskRaw, QUOTE_SYMBOL(agent))
                 s2 == SpotReconciledSide(s1, riskRaw, QUOTE_SYMBOL(agent))
             IN  s2 = s1

\* Reconcile is about to run on a drifted row: its first call writes.
C2_Witness ==
    /\ pc = "reconcile" /\ IsPerp(agent)
    /\ get_stored_position(store, agent) # PerpActualState(hlPos)

\* C3 (as amended): when the reconciliation query fails the stored side is
\* left unwritten on both paths.  The perp path goes on with the last stored
\* side and reaches the decision step; the spot path ends the tick there,
\* with no decision, no transaction and no write.
C3_ReconcileFailurePerpSoftSpotSkips ==
    recQuery = "fail" =>
        /\ PhaseWrites("reconcile") = {}
        /\ IF IsPerp(agent)
           THEN /\ pc \in {"liq", "decide", "done"}
                /\ pc \in {"liq", "decide"} => side = StoredSide
                /\ pc = "done" => decision # "none"
           ELSE /\ pc = "done" /\ decision = "none" /\ side = "none"
                /\ orders = <<>> /\ PhaseWrites("exec") = {}

\* A perp tick whose reconciliation query failed went on to submit an order.
C3_Witness ==
    /\ recQuery = "fail" /\ IsPerp(agent) /\ pc = "done"
    /\ decision \in {"open", "close"} /\ orders # <<>>

\* C3 as stated: on both paths a failed reconciliation query leaves the side
\* unwritten and the tick continues to the decision step.
C3_FailSoftOnBothPaths ==
    recQuery = "fail" =>
        /\ PhaseWrites("reconcile") = {}
        /\ pc = "done" => decision # "none"

\* C4 as stated: at the end of every tick whose reconciliation query
\* succeeded and during which nobody else changed the venue, the stored side
\* is the venue's true side.
C4_StoredSideMatchesVenue ==
    pc = "done" /\ recQuery = "ok" /\ ~extChanged => StoredSide = TrueSide

\* C5 as stated: run_update and run_unwind return normally whatever external
\* call fails; no exception leaves the entry point.
C5_EntryPointsTotal == ~raised

C7_AllocationSetOnce ==
    /\ [](/\ allocOutcome = "exists" =>
                allocQueries = 0 /\ PhaseWrites("alloc") = {}
          /\ decision = "open" /\ orders # <<>> =>
                orders[1].amount =
                    Min(IF result.status = "filled"
                        THEN hlBalance + orders[1].amount ELSE hlBalance,
                        StoredRow.allocated_amount)
          /\ pc \in {"simulate", "pipeline"} /\ swap.from = "USDC" =>
                swap.amount = Min(usdcRaw, StoredRow.allocated_amount_raw))
    /\ [][StoredRow # NoPosition =>
            /\ get_position(store', agent) # NoPosition
            /\ get_position(store', agent).allocated_amount
                  = StoredRow.allocated_amount
            /\ get_position(store', agent).allocated_amount_raw
                  = StoredRow.allocated_amount_raw]_vars

\* A later tick runs with a cap above the stored allocation and a balance
\* above both: the order it submits has the stored allocation as notional.
C7_Witness ==
    /\ pc = "done" /\ allocOutcome = "exists" /\ decision = "open"
    /\ orders # <<>>
    /\ StoredRow.allocated_amount < cap
    /\ orders[1].amount = StoredRow.allocated_amount
    /\ hlBalance >= cap

\* C8: ensure_allocation refuses without creating a Position.  Every refusal
\* (query error, no balance, spot balance below the threshold) ends the tick
\* with no row for the key, no write, no decision and nothing submitted; a
\* Position is created only over a positive balance (spot: one at or above
\* the threshold); and the perp path refuses for the balance only when it is
\* <= 0, so a positive balance below the cap still creates the Position.
C8_RefusedAllocationCreatesNothing ==
    /\ allocOutcome \in {"query_error", "no_balance", "insufficient"} =>
          /\ pc = "done" /\ StoredRow = NoPosition
          /\ writes = <<>> /\ orders = <<>> /\ decision = "none"
    /\ allocOutcome = "no_balance" => IsPerp(agent) /\ hlBalance <= 0
    /\ allocOutcome = "insufficient" =>
          IsSpot(agent) /\ usdcRaw < NEEDED * Pow10(USDC_DECIMALS)
    /\ allocOutcome = "created" /\ pc = "reconcile" =>
          /\ StoredRow # NoPosition
          /\ IF IsPerp(agent) THEN hlBalance > 0
             ELSE usdcRaw >= NEEDED * Pow10(USDC_DECIMALS)

\* A spot wallet with a positive balance below the threshold was refused.
C8_Witness ==
    /\ pc = "done" /\ allocOutcome = "insufficient" /\ usdcRaw > 0
    /\ StoredRow = NoPosition

\* C9 as stated: the Position ensure_allocation creates has the unallocated
\* side and allocated_amount equal to ctx.allocation_usdc, on the spot and on
\* the perp path.
C9_CreatedPositionHoldsCap ==
    allocOutcome = "created" /\ pc = "reconcile" =>
        /\ StoredRow.current_position = UnallocatedSide(agent)
        /\ StoredRow.allocated_amount = cap

\* C10 (as amended): every call of ensure_allocation that finds no Position
\* emits at least one message through ctx.print, whatever its outcome.
C10_AllocationSpeaksWhenNoPosition ==
    allocOutcome \in {"query_error", "no_balance", "insufficient", "created"} =>
        allocPrints >= 1

\* The balance read failed and the failure was printed.
C10_Witness == allocOutcome = "query_error" /\ allocPrints >= 1

\* C10 as stated: every call of ensure_allocation emits at least one message,
\* the call that finds the Position included.
C10_AllocationNeverSilent == allocOutcome # "none" => allocPrints >= 1

\* C11: effective trade amount.  Wherever the perp decision step stands with
\* a stored allocation c and a readable balance b, the open hands min(b, c)
\* to the engine when b > 0 and submits nothing when b <= 0; an order that
\* was submitted has that notional; and the spot entry hands
\* min(usdc balance, allocated_amount_raw) to the pipeline, or nothing when
\* that is <= 0.
C11_EffectiveTradeAmount ==
    /\ pc = "decide" /\ IsPerp(agent) =>
          \A e \in OpenEnvs :
             LET c == Allocation(StoredRow, cap)
                 o == open_long_position(COIN(agent), c, hlBalance, e)
             IN  e.qBal = "ok" =>
                    IF hlBalance > 0
                    THEN /\ o.notional = Min(hlBalance, c)
                         /\ o.result # GuardResult("no_balance")
                    ELSE ~o.submitted /\ o.result = GuardResult("no_balance")
    /\ decision = "open" /\ orders # <<>> =>
          LET b == IF result.status = "filled"
                   THEN hlBalance + orders[1].amount ELSE hlBalance
          IN  b > 0 /\ orders[1].amount = Min(b, StoredRow.allocated_amount)
    /\ decision = "open" /\ result = GuardResult("no_balance") =>
          hlBalance <= 0 /\ orders = <<>>
    /\ pc \in {"simulate", "pipeline"} /\ swap.from = "USDC" =>
          usdcRaw > 0 /\ swap.amount = Min(usdcRaw, StoredRow.allocated_amount_raw)
    /\ decision = "enter" /\ result = GuardResult("nothing_to_swap") =>
          usdcRaw <= 0 /\ orders = <<>>

\* A balance above the stored allocation: the submitted order is sized at the
\* allocation.
C11_Witness ==
    /\ pc = "done" /\ decision = "open" /\ orders # <<>>
    /\ result.status = "resting"
    /\ orders[1].amount = StoredRow.allocated_amount
    /\ hlBalance > orders[1].amount

\* C12 as stated: the open the perp agent attempts with notional
\* min(balance, allocation) is never rejected by the engine's margin check
\* against that same balance.
C12_MinSizingPassesMarginCheck ==
    decision = "open" /\ pc = "done" => result.status # "margin_check_failed"

\* The calls of the store log made on key k: its upserts, and its update_side
\* calls after index i.
Upserts(k) == {i \in DOMAIN writes : writes[i].op = "upsert" /\ writes[i].key = k}
SideUpdatesAfter(k, i) ==
    {j \in DOMAIN writes : j > i /\ writes[j].op = "update_side" /\ writes[j].key = k}
Last(S) == CHOOSE i \in S : \A j \in S : j <= i

\* C13: PositionStore round trip.  After any sequence of store calls the
\* table holds at most one row per key; get returns absent for a key never
\* upserted; and for a key whose last upsert was not followed by an
\* update_side of that key, get returns a Position equal in all fields to the
\* last one upserted for it, whatever was upserted under other keys since.
C13_StoreRoundTrip ==
    \A k \in Agents :
        /\ Cardinality({r \in store : r.agent_name = k}) <= 1
        /\ Upserts(k) = {} => get_position(store, k) = NoPosition
        /\ Upserts(k) # {} /\ SideUpdatesAfter(k, Last(Upserts(k))) = {} =>
              get_position(store, k) = writes[Last(Upserts(k))].row

\* Two different Positions upserted under one key, then one under another key.
C13_Witness ==
    /\ Len(writes) = 3
    /\ \A i \in 1..3 : writes[i].op = "upsert"
    /\ writes[1].key = writes[2].key /\ writes[1].row # writes[2].row
    /\ writes[3].key # writes[1].key

\* C14: update_side is a partial update.  After any sequence of store calls,
\* a key never upserted has no row however often update_side was called on
\* it; a key with a row has the ticker, tokens and allocated amounts of its
\* last upsert, and the side of the last update_side made on it since (the
\* upserted side when there was none): update_side calls on other keys leave
\* it alone.
C14_UpdateSideIsPartial ==
    \A k \in Agents :
        IF Upserts(k) = {}
        THEN get_position(store, k) = NoPosition
        ELSE LET p == get_position(store, k)
                 u == writes[Last(Upserts(k))].row
                 sd == SideUpdatesAfter(k, Last(Upserts(k)))
             IN  /\ p # NoPosition
                 /\ p.ticker = u.ticker
                 /\ p.base_token = u.base_token
                 /\ p.quote_token = u.quote_token
                 /\ p.allocated_amount = u.allocated_amount
                 /\ p.allocated_amount_raw = u.allocated_amount_raw
                 /\ p.current_position = IF sd = {} THEN u.current_position
                                         ELSE writes[Last(sd)].side

\* Two keys hold rows of different sides and update_side flips one of them.
C14_Witness ==
    /\ Len(writes) = 3
    /\ writes[1].op = "upsert" /\ writes[2].op = "upsert"
    /\ writes[1].key # writes[2].key /\ writes[1].side # writes[2].side
    /\ writes[3].op = "update_side" /\ writes[3].key = writes[1].key
    /\ writes[3].side = writes[2].side

\* C15: side domain.  In every reachable state the stored side of a perp
\* agent is FLAT or LONG and the stored side of a spot agent is the stable
\* symbol or the risk-token symbol of its pair; rows of other agents are not
\* touched.
C15_SideDomain ==
    /\ StoredRow # NoPosition =>
          StoredSide \in (IF IsPerp(agent) THEN {"FLAT", "LONG"}
                          ELSE {"USDC", QUOTE_SYMBOL(agent)})
    /\ \A k \in Agents \ {agent} : get_position(store, k) = NoPosition

\* A spot tick ended with a confirmed entry: the row holds the risk symbol.
C15_Witness ==
    /\ IsSpot(agent) /\ pc = "done" /\ result.status = "confirmed"
    /\ StoredRow # NoPosition /\ StoredSide = QUOTE_SYMBOL(agent)

\* C16 as stated: a Position row appears only in ensure_allocation, and only
\* when absent; a row that exists exists in the next state; and its side
\* changes only in the reconciliation step or in an execution step that ends
\* with a confirmed trade (a filled order, a confirmed swap).
C16_PositionLifecycle ==
    [][/\ StoredRow = NoPosition /\ get_position(store', agent) # NoPosition =>
             pc = "alloc"
       /\ StoredRow # NoPosition => get_position(store', agent) # NoPosition
       /\ StoredRow # NoPosition
             /\ get_position(store', agent).current_position # StoredSide =>
                \/ pc = "reconcile"
                \/ /\ pc \in {"decide", "unwind", "pipeline"}
                   /\ result'.status \in {"filled", "confirmed"}]_vars

\* C17: tie-break.  An update tick of a count-form agent whose counts are
\* equal, (0, 0) included, ends at once: no allocation, no reconciliation, no
\* decision branch, no PositionStore write and nothing submitted, whatever
\* the stored side and the venue state.
C17_TieHolds ==
    op = "update" /\ agent # ETH_HL /\ sig.bullish = sig.bearish =>
        /\ pc = "done" /\ decision = "none"
        /\ allocOutcome = "none" /\ recQuery = "none"
        /\ writes = <<>> /\ orders = <<>> /\ result = NoResult /\ ~raised

\* A tie of non-zero counts met a row stored LONG over a flat venue, and
\* left it.
C17_Witness ==
    /\ op = "update" /\ pc = "done" /\ IsPerp(agent) /\ agent # ETH_HL
    /\ sig.bullish = sig.bearish /\ sig.bullish > 0
    /\ StoredRow # NoPosition /\ StoredSide = "LONG" /\ ~hlPos.has

\* C18: count form of the decision.  In an update tick of a count-form agent
\* that reached the decision with reconciled side `side`: the entry branch
\* (open long / USDC -> risk swap) was taken iff bullish > bearish and side is
\* the unallocated side; the exit branch (close long / risk -> USDC swap) iff
\* bearish > bullish and side is the allocated side; an order is an open only
\* in the entry branch and a close only in the exit branch, a swap sells USDC
\* only in the entry branch and the risk token only in the exit branch; and
\* in every other case (hold, or no decision reached) no order and no swap
\* exists.
C18_CountFormDecision ==
    op = "update" /\ agent # ETH_HL =>
        /\ decision \in {"open", "enter"} <=>
              /\ decision # "none"
              /\ sig.bullish > sig.bearish
              /\ side = UnallocatedSide(agent)
        /\ decision \in {"close", "exit"} <=>
              /\ decision # "none"
              /\ sig.bearish > sig.bullish
              /\ side # UnallocatedSide(agent)
        /\ \A i \in DOMAIN orders :
              /\ orders[i].kind = "open" => decision = "open"
              /\ orders[i].kind = "close" => decision = "close"
        /\ swap # NoSwap =>
              IF swap.from = "USDC" THEN decision = "enter" ELSE decision = "exit"
        /\ decision \in {"hold", "none"} =>
              orders = <<>> /\ swap = NoSwap /\ result.src \notin {"order", "swap"}

\* Bearish counts on the allocated side: the spot agent is selling the risk
\* token.
C18_Witness ==
    /\ op = "update" /\ agent = BTC_BASE /\ decision = "exit"
    /\ sig.bearish > sig.bullish /\ side = QUOTE_SYMBOL(agent)
    /\ swap # NoSwap /\ swap.from = QUOTE_SYMBOL(agent) /\ swap.route > 0

\* C19: the direction form is long-only.  In an update tick of the ETH agent
\* that reached the decision with reconciled side `side`: the open branch was
\* taken iff the direction is LONG and side is FLAT; the close branch iff the
\* direction is SHORT and side is LONG; under SHORT every order is a close.
\* In any tick of the agent, update or unwind, an open order is a buy and a
\* sell is a close that reduces a long of positive size.  A direction outside
\* {LONG, SHORT} ends the tick with no allocation, no PositionStore write and
\* no order.
C19_DirectionFormLongOnly ==
    agent = ETH_HL =>
        /\ \A i \in DOMAIN orders :
              /\ orders[i].kind = "open" => orders[i].is_buy
              /\ ~orders[i].is_buy => orders[i].kind = "close" /\ orders[i].size > 0
        /\ op = "update" =>
              /\ decision = "open" <=>
                    decision # "none" /\ sig.direction = "LONG" /\ side = "FLAT"
              /\ decision = "close" <=>
                    decision # "none" /\ sig.direction = "SHORT" /\ side = "LONG"
              /\ sig.direction = "SHORT" =>
                    \A i \in DOMAIN orders : orders[i].kind = "close"
              /\ sig.direction = "LONG" =>
                    \A i \in DOMAIN orders : orders[i].kind = "open"
              /\ sig.direction \notin {"LONG", "SHORT"} =>
                    /\ pc = "done" /\ decision = "none" /\ allocOutcome = "none"
                    /\ writes = <<>> /\ orders = <<>> /\ result = NoResult

\* A SHORT signal on a long position submitted one order, a close, and it
\* filled: the venue holds nothing, in particular no short.
C19_Witness ==
    /\ agent = ETH_HL /\ op = "update" /\ sig.direction = "SHORT"
    /\ decision = "close" /\ Len(orders) = 1 /\ orders[1].kind = "close"
    /\ result.status = "filled" /\ hlPos = NoPos /\ StoredSide = "FLAT"

\* C20: the route resolver takes the first candidate, in the order volatile
\* direct, stable direct, CL direct, whose quote is positive, whatever the
\* later candidates quote; a candidate whose quote call raised, or quoted
\* zero or nothing, is passed over; the answer is none-found (0) iff no
\* candidate quotes a positive amount; and every combination of answers,
\* raising ones included, yields one of these four answers.
C20_FirstPositiveCandidate ==
    pc = "done" =>
        /\ swap.route \in 0..3
        /\ swap.route = 0 <=> \A j \in 1..3 : amountsOut[j] <= 0
        /\ swap.route # 0 =>
              /\ amountsOut[swap.route] > 0
              /\ \A j \in 1..(swap.route - 1) : amountsOut[j] <= 0

\* The first candidate raised ContractLogicError, the second quotes 1, the
\* third quotes 2: the second is taken.
C20_Witness ==
    /\ pc = "done" /\ amountsOut = <<-2, 1, 2>> /\ swap.route = 2

\* C21: approval in the spot pipeline.  A pipeline step sends an approval
\* transaction only if the router allowance of from_token is strictly below
\* amount_raw, and then it is the first transaction and approves exactly
\* amount_raw; when the allowance is below amount_raw and the allowance, nonce
\* and gas-price reads went through, the approval is built, and it is sent
\* unless the send itself failed; when the allowance suffices no approval is
\* sent, no approval step can fail, and the only transaction is the swap.
C21_ApprovalIffAllowanceShort ==
    [][pc = "pipeline" =>
         LET short == allowance[swap.from] < swap.amount
             reads_ok == result'.status \notin {"allowance", "nonce", "gas_price"}
             approvals == {i \in DOMAIN orders' : orders'[i].kind = "approve"}
         IN  /\ approvals # {} => short /\ approvals = {1}
             /\ \A i \in approvals : orders'[i].amount = swap.amount
             /\ short /\ reads_ok /\ result'.status # "approve_send" => approvals = {1}
             /\ short /\ reads_ok /\ result'.status = "approve_send" => orders' = <<>>
             /\ ~short =>
                   /\ approvals = {}
                   /\ result'.status \notin {"approve_send", "approve_wait_lost",
                                            "approve_wait_mined", "approve_revert",
                                            "nonce_refresh"}
                   /\ reads_ok /\ result'.status # "swap_send" =>
                         Len(orders') = 1 /\ orders'[1].kind = "swap"
                                          /\ orders'[1].amount = swap.amount]_vars

\* The allowance left by an earlier approval sufficed: the pipeline sent the
\* swap alone and it confirmed.
C21_Witness ==
    /\ IsSpot(agent) /\ pc = "done" /\ result.status = "confirmed"
    /\ Len(orders) = 1 /\ orders[1].kind = "swap"

\* C22: failure semantics of the spot pipeline.  Whatever external call of
\* _perform_swap fails (quote, allowance read, nonce read, gas-price read,
\* send, receipt wait), the call returns failure and does not raise, and no
\* later step is performed: nothing is sent after a failed quote or read, and
\* no swap is sent after a failed or reverted approval.
C22_PipelineFailsWithoutRaising ==
    result.src = "swap" =>
        /\ ~raised
        /\ result.status # "confirmed" => ~result.success /\ PhaseWrites("exec") = {}
        /\ result.status \in {"no_route", "allowance", "nonce", "gas_price",
                              "approve_send"} => orders = <<>>
        /\ result.status \in {"approve_wait_lost", "approve_wait_mined",
                              "approve_revert", "nonce_refresh"} =>
              Len(orders) = 1 /\ orders[1].kind = "approve"
        /\ result.status = "swap_send" =>
              \A i \in DOMAIN orders : orders[i].kind = "approve"

\* C23: the checks of open_long, in order.  A call of market_open_long_safe
\* whose venue reads were answered returns margin_check_failed when
\* withdrawable < (size_usd / leverage) * 1.1; else price_error when the mid
\* price is <= 0; else size_error when size_usd / mid rounded to the coin's
\* decimals (BTC 4, ETH 3) is <= 0; each with success = false and no order.
\* An order is submitted iff none of the three fails, and its size is the
\* full size_usd / mid to within half a unit of the last decimal: it is not
\* cut down to the margin.
C23_OpenChecksInOrder ==
    pc = "done" /\ env.call = "open" /\ ~raised =>
        LET units == Pow10(IF env.coin = "ETH" THEN ETH_DECIMALS ELSE BTC_DECIMALS)
            margin_fail ==
                env.withdrawable * DEFAULT_LEVERAGE * 10 < env.size_usd * 11
            price_fail == env.e.mid <= 0
            size_fail == 2 * env.size_usd * units <= env.e.mid
            failed(status) ==
                result.status = status /\ ~result.success /\ orders = <<>>
        IN  /\ margin_fail => failed("margin_check_failed")
            /\ ~margin_fail /\ price_fail => failed("price_error")
            /\ ~margin_fail /\ ~price_fail /\ size_fail => failed("size_error")
            /\ orders # <<>> <=> ~margin_fail /\ ~price_fail /\ ~size_fail
            /\ orders # <<>> =>
                  /\ Len(orders) = 1 /\ orders[1].is_buy /\ orders[1].size > 0
                  /\ 2 * (orders[1].size * env.e.mid - env.size_usd * units)
                        <= env.e.mid
                  /\ 2 * (env.size_usd * units - orders[1].size * env.e.mid)
                        <= env.e.mid

\* Margin and price were fine, the rounded size came out as zero.
C23_Witness ==
    /\ pc = "done" /\ env.call = "open" /\ ~raised
    /\ env.withdrawable * DEFAULT_LEVERAGE * 10 >= env.size_usd * 11
    /\ env.e.mid > 0 /\ result.status = "size_error" /\ orders = <<>>

\* C24: close_long with nothing to close.  A call of market_close_long_safe
\* whose position read was answered: no position for the coin gives
\* success = true, status no_position and no order; a position of signed size
\* <= 0 gives success = true, status no_long_position and no order; a
\* market-close order is submitted iff the signed size is > 0.
C24_CloseNothingIsSuccess ==
    pc = "done" /\ env.call = "close" /\ ~raised =>
        /\ ~env.pos.has =>
              result.success /\ result.status = "no_position" /\ orders = <<>>
        /\ env.pos.has /\ env.pos.szi <= 0 =>
              result.success /\ result.status = "no_long_position" /\ orders = <<>>
        /\ orders # <<>> <=> env.pos.has /\ env.pos.szi > 0
        /\ orders # <<>> =>
              Len(orders) = 1 /\ orders[1].kind = "close"
                              /\ result.status \notin {"no_position", "no_long_position"}

\* The venue reports a short for the coin: success, no_long_position, no
\* order.
C24_Witness ==
    /\ pc = "done" /\ env.call = "close" /\ env.pos.has /\ env.pos.szi < 0
    /\ result.success /\ result.status = "no_long_position" /\ orders = <<>>

\* C25: result classification, first match wins.  For every raw response:
\* a top-level status other than ok gives success = false with that status;
\* else an empty statuses list gives false / no_statuses; else an error field
\* in the first item gives false / error, also when the item carries filled
\* or resting as well; else a filled field gives true / filled with
\* filled_size and avg_price taken from totalSz and avgPx (0 when missing);
\* else a resting field gives true / resting; else false / unknown.  Only the
\* first item decides: a second item changes nothing.
C25_ClassifierFirstMatchWins ==
    pc = "done" /\ env.call = "parse" =>
        LET r == env.resp
            ok == r.status = "ok"
            has(f) == r.statuses # <<>> /\ f \in DOMAIN r.statuses[1]
            is(success, status) ==
                result.success = success /\ result.status = status
        IN  /\ ~ok => is(FALSE, r.status)
            /\ ok /\ r.statuses = <<>> => is(FALSE, "no_statuses")
            /\ ok /\ has("error") => is(FALSE, "error")
            /\ ok /\ ~has("error") /\ has("filled") =>
                  /\ is(TRUE, "filled")
                  /\ LET fill == r.statuses[1].filled
                     IN  /\ "totalSz" \in DOMAIN fill =>
                               result.filled_size = fill.totalSz
                         /\ "avgPx" \in DOMAIN fill => result.avg_price = fill.avgPx
                         /\ "totalSz" \notin DOMAIN fill => result.filled_size = 0
            /\ ok /\ ~has("error") /\ ~has("filled") /\ has("resting") =>
                  is(TRUE, "resting")
            /\ ok /\ r.statuses # <<>> /\ ~has("error") /\ ~has("filled")
                  /\ ~has("resting") => is(FALSE, "unknown")
            /\ result.status # "filled" =>
                  result.filled_size = 0 /\ result.avg_price = 0

\* The first item carries an error and a fill, the second item a fill alone:
\* the result is the error.
C25_Witness ==
    /\ pc = "done" /\ env.call = "parse" /\ env.resp.status = "ok"
    /\ Len(env.resp.statuses) = 2
    /\ {"error", "filled"} \subseteq DOMAIN env.resp.statuses[1]
    /\ DOMAIN env.resp.statuses[2] = {"filled"}
    /\ result.status = "error" /\ ~result.success

\* C26: the order engine never raises.  Whatever venue call fails inside
\* market_open_long_safe or market_close_long_safe (the margin query, the
\* mid-price query, the position query, the order submission), the engine
\* returns an OrderResult with success = false, with status exception when
\* the submission failed, and does not raise to its caller.
C26_EngineNeverRaises ==
    pc = "done" /\ env.call \in {"open", "close"} =>
        /\ ~raised
        /\ result.src = "order"
        /\ env.call = "open" /\ "fail" \in {env.e.qMargin, env.e.qMid} =>
              ~result.success
        /\ env.call = "close" /\ env.e.qPos = "fail" => ~result.success
        /\ orders # <<>> /\ env.e.resp.status = "raise" =>
              ~result.success /\ result.status = "exception"

\* The statuses the contract enumerates for an OrderResult.
EnumeratedStatuses ==
    {"filled", "resting", "no_position", "no_long_position", "margin_check_failed",
     "price_error", "size_error", "error", "exception", "unknown"}

\* The raw response a call of the engine classified, if it got to one.
ClassifiedResponse ==
    IF env.call = "parse" THEN env.resp
    ELSE IF orders # <<>> THEN env.e.resp
    ELSE [status |-> "ok", statuses |-> <<>>]

\* C27 as stated: every OrderResult returned by open_long, close_long or the
\* classifier has a status of the enumerated set.
C27_StatusEnumerated ==
    pc = "done" /\ env.call \in {"open", "close", "parse"} /\ ~raised =>
        result.status \in EnumeratedStatuses

\* C27, amended: every OrderResult returned has a status of the enumerated
\* set, or no_statuses, or - when the top-level status of the raw response is
\* not ok - that raw status; and the two statuses outside the set come with
\* success = false.
C27_StatusEnumeratedOrRaw ==
    pc = "done" /\ env.call \in {"open", "close", "parse"} /\ ~raised =>
        /\ \/ result.status \in EnumeratedStatuses \cup {"no_statuses"}
           \/ /\ ClassifiedResponse.status \notin {"ok", "raise"}
              /\ result.status = ClassifiedResponse.status
        /\ result.status \notin EnumeratedStatuses => ~result.success

\* An order was submitted and the venue answered ok with an empty statuses
\* list: the result is no_statuses.
C27_Witness ==
    /\ pc = "done" /\ env.call = "open" /\ orders # <<>>
    /\ result.status = "no_statuses" /\ ~result.success

\* C28: the liquidation risk rule.  check_liquidation_risk reports not at
\* risk when there is no position (none, or size 0) or no liquidation price
\* is known; otherwise, for a long with a known current price, at risk iff
\* the liquidation price lies strictly less than 5% below the current price:
\* 100 * liq > 95 * current.  So exactly 5% is not at risk and a liquidation
\* price above the current price is.
C28_LiquidationRiskRule ==
    pc = "done" /\ env.call = "risk" =>
        LET no_position == ~env.pos.has \/ env.pos.szi = 0
        IN  /\ no_position => liq = "safe"
            /\ env.liqPx = 0 => liq = "safe"
            /\ ~no_position /\ env.pos.szi > 0 /\ env.liqPx # 0 /\ env.mid > 0 =>
                  /\ liq = "at_risk" <=> 100 * env.liqPx > 95 * env.mid
                  /\ 100 * env.liqPx = 95 * env.mid => liq = "safe"
                  /\ env.liqPx > env.mid => liq = "at_risk"

\* A long whose liquidation price is exactly 5% below the current price: not
\* at risk.
C28_Witness ==
    /\ pc = "done" /\ env.call = "risk" /\ env.pos.has /\ env.pos.szi > 0
    /\ env.mid = 100000 /\ env.liqPx = 95000 /\ liq = "safe"

\* The signal of the running tick asks for a long.
SignalWantsLong ==
    IF agent = ETH_HL THEN sig.direction = "LONG" ELSE sig.bullish > sig.bearish

\* C29: the liquidation check never blocks trading.  In an update tick of a
\* perp agent the check runs only when the reconciled side is LONG; its step
\* changes neither the PositionStore nor the venue nor anything the decision
\* reads; and after it, whatever its outcome (at risk, safe, or the check
\* failing), the decision is the one the signal alone asks for: a bullish
\* signal holds and submits nothing, a bearish one closes, the close order is
\* submitted iff the venue holds a long, and the stored side becomes FLAT iff
\* the close reported success.  So two ticks that differ only in the outcome
\* of the check submit the same orders and store the same Position.
C29_LiquidationCheckNeverBlocks ==
    /\ [](IsPerp(agent) /\ op = "update" =>
             /\ pc = "liq" \/ liq # "none" => side = "LONG"
             /\ pc = "decide" /\ side = "LONG" => liq \in {"at_risk", "safe", "error"}
             /\ pc = "decide" /\ liq # "none" =>
                   IF SignalWantsLong
                   THEN ENABLED PerpHold /\ ~ENABLED PerpClose
                   ELSE ENABLED PerpClose /\ ~ENABLED PerpHold)
    /\ [][pc = "liq" =>
             /\ pc' = "decide" /\ liq' \in {"at_risk", "safe", "error"}
             /\ store' = store /\ writes' = writes /\ venueVars' = venueVars
             /\ orders' = orders /\ result' = result /\ raised' = raised
             /\ side' = side /\ sig' = sig /\ decision' = decision]_vars
    /\ [][pc = "decide" /\ pc' = "done" /\ liq # "none" =>
             IF SignalWantsLong
             THEN /\ decision' = "hold" /\ orders' = orders
                  /\ store' = store /\ venueVars' = venueVars
             ELSE /\ decision' = "close"
                  /\ orders' # orders => hlPos.has /\ hlPos.szi > 0
                  /\ hlPos.has /\ hlPos.szi > 0 /\ result'.src = "order" =>
                        Len(orders') = Len(orders) + 1
                  /\ store' = IF result'.success
                              THEN update_position_side(store, agent, "FLAT")
                              ELSE store]_vars

\* The check found the long at risk; the bearish signal closed it all the
\* same.
C29_Witness ==
    /\ IsPerp(agent) /\ op = "update" /\ pc = "done" /\ liq = "at_risk"
    /\ decision = "close" /\ result.status = "filled"
    /\ Len(orders) = 1 /\ StoredSide = "FLAT"

\* Every external call the running entry point made succeeded, and the
\* close or swap it submitted, if any, went through.
EveryCallSucceeded ==
    /\ ~raised
    /\ \/ result = NoResult
       \/ result.src = "precheck"
       \/ result.src \in {"order", "swap"} /\ result.status \in {"filled", "confirmed"}

\* C30: unwind closes any open position.  For every stored side and every
\* venue state, a stored side that disagrees with the venue included, a
\* run_unwind in which every external call succeeded and the close filled
\* ends with no long position (no risk-token balance) at the venue and with
\* the stored side at the unallocated value.
C30_UnwindClosesAnyPosition ==
    op = "unwind" /\ pc = "done" /\ StoredRow # NoPosition /\ EveryCallSucceeded =>
        /\ TrueSide = UnallocatedSide(agent)
        /\ StoredSide = UnallocatedSide(agent)

(* C34 *)
OpenToken(a) == IF a = ETH_HL THEN "{" ELSE "["
CloseToken(a) == IF a = ETH_HL THEN "}" ELSE "]"

\* The text has an opening bracket somewhere before a closing one.
HasBracketPair(a, t) ==
    \E i, j \in 1..Len(t) : i < j /\ t[i] = OpenToken(a) /\ t[j] = CloseToken(a)

\* The text from its first opening bracket to its last closing one.
WidestSpan(a, t) ==
    LET i == CHOOSE i \in 1..Len(t) :
                 t[i] = OpenToken(a) /\ \A k \in 1..(i - 1) : t[k] # OpenToken(a)
        j == CHOOSE j \in 1..Len(t) :
                 t[j] = CloseToken(a) /\ \A k \in (j + 1)..Len(t) : t[k] # CloseToken(a)
    IN  [k \in 1..(j - i + 1) |-> t[i + k - 1]]

\* The four kinds of malformed payload: empty, no reasoning, no JSON array /
\* object in the text, or a bracketed text that is not JSON.
MalformedPayload(a, p) ==
    \/ p.field # "text"
    \/ \A i \in 1..Len(p.reasoning) : p.reasoning[i] = " "
    \/ ~HasBracketPair(a, p.reasoning)
    \/ /\ HasBracketPair(a, p.reasoning)
       /\ IF a = ETH_HL THEN ~IsJsonObject(WidestSpan(a, p.reasoning))
          ELSE ~IsJsonArray(WidestSpan(a, p.reasoning))

\* C34: a malformed signal payload (empty, without a reasoning field, without
\* a JSON array / object, or one that fails to parse) makes the parser yield
\* no signal without raising, and the tick returns normally having created no
\* Position, written nothing to the PositionStore, asked no balance and
\* submitted no order or swap.
C34_MalformedIsNoSignal ==
    (env.call = "fetch" /\ pc # "idle" /\ MalformedPayload(agent, env.payload)) =>
        /\ result.src = "parser"
        /\ result.status = "no_signal"
        /\ pc = "done"
        /\ ~raised
        /\ store = {}
        /\ writes = <<>>
        /\ allocQueries = 0
        /\ orders = <<>>

\* A tick that ended on a bracketed text that is not JSON.
C34_Witness ==
    /\ env.call = "fetch" /\ pc = "done"
    /\ env.payload.field = "text"
    /\ HasBracketPair(agent, env.payload.reasoning)
    /\ MalformedPayload(agent, env.payload)
    /\ result.status = "no_signal"

\* A tick on a well-formed payload that went on to create its Position.
C34_WellFormedAllocates ==
    /\ env.call = "fetch" /\ store # {} /\ result.status = "signal"

(* C35 *)
\* C35: the registry exposes exactly two agents, "SentiChain BTC Agent on
\* Hyperliquid" and "SentiChain ETH Agent on Hyperliquid": list_agent_names
\* returns exactly these two names, and get_agent of the BTC name returns a
\* module whose AGENT_NAME is that name and which has run_update and
\* run_unwind.  This holds whichever agent module the session runs.
C35_RegistryListsHyperliquidAgents ==
    agent \in Agents =>
        /\ Len(list_agent_names) = 2
        /\ {list_agent_names[i] : i \in 1..Len(list_agent_names)} = {BTC_HL, ETH_HL}
        /\ get_agent(BTC_HL) # KeyError
        /\ get_agent(BTC_HL) = AgentModule(BTC_HL)

(* C36 *)
TxIndices(kind) == {i \in 1..Len(orders) : orders[i].kind = kind}

ApprovalFailures ==
    {"approve_send", "approve_wait_lost", "approve_wait_mined", "approve_revert",
     "nonce_refresh"}

\* C36: within one call of the swap pipeline the swap is submitted only after
\* the approval was confirmed (no swap when the approval step failed or
\* reverted), the swap's nonce is strictly greater than the approval's, and
\* at most one approval and one swap are submitted.
C36_ApproveThenSwap ==
    /\ Cardinality(TxIndices("approve")) <= 1
    /\ Cardinality(TxIndices("swap")) <= 1
    /\ \A i \in TxIndices("approve"), j \in TxIndices("swap") :
          /\ i < j
          /\ orders[j].nonce > orders[i].nonce
    /\ (pc = "done" /\ result.src = "swap" /\ result.status \in ApprovalFailures) =>
          TxIndices("swap") = {}
    /\ (TxIndices("approve") # {} /\ TxIndices("swap") # {}) =>
          result.status \in {"swap_wait_lost", "swap_wait_mined", "swap_revert",
                             "confirmed"}

\* A call that sent the approval and then the swap.
C36_Witness ==
    /\ pc = "done"
    /\ TxIndices("approve") # {}
    /\ TxIndices("swap") # {}

\* A call whose approval reverted.
C36_WitnessReverted ==
    /\ pc = "done"
    /\ result.status = "approve_revert"
    /\ TxIndices("approve") # {}

(* C37 *)
\* The transactions the step submits.
NewTxs == SubSeq(orders', Len(orders) + 1, Len(orders'))

\* C37: a pipeline call whose approval was confirmed but whose swap failed or
\* reverted leaves the stored Position unchanged and the approved allowance
\* on chain; nothing but a pipeline call changes the allowance; and a
\* pipeline call for a token whose allowance covers the amount sends no
\* (second) approval: what it submits, if anything, is the swap.
C37_ApprovedAllowanceIsReused ==
    [][/\ (/\ pc = "pipeline"
           /\ result'.status \in {"swap_send", "swap_wait_lost", "swap_revert"}
           /\ \E i \in 1..Len(NewTxs) : NewTxs[i].kind = "approve")
          => /\ store' = store
             /\ allowance'[swap.from] = swap.amount
       /\ pc # "pipeline" => allowance' = allowance
       /\ (pc = "pipeline" /\ allowance[swap.from] >= swap.amount)
          => /\ \A i \in 1..Len(NewTxs) : NewTxs[i].kind = "swap"
             /\ Len(NewTxs) <= 1
             /\ result'.status \notin ApprovalFailures]_vars

\* A later call that swapped on the allowance an earlier call had left: the
\* allowance starts at zero and only an approval raises it.
C37_Witness ==
    /\ pc = "done" /\ result.src = "swap" /\ result.status = "confirmed"
    /\ TxIndices("approve") = {}
    /\ TxIndices("swap") # {}

(* C38 *)
\* The signal of the tick names a direction: the counts differ, or the
\* direction is LONG or SHORT.
DirectionalSignal ==
    IF agent = ETH_HL THEN sig.direction \in {"LONG", "SHORT"}
    ELSE sig.bullish # sig.bearish

\* The update tick has ended and its final decision was HOLD: the signal gave
\* no direction, or the decision step held.
FinalDecisionHold ==
    /\ pc = "done" /\ op = "update"
    /\ ~DirectionalSignal \/ decision = "hold"

AllocationDidNothing ==
    /\ allocQueries = 0
    /\ \A i \in DOMAIN writes : writes[i].op # "upsert"

\* C38 as stated: the AllocationManager runs only when an action is needed;
\* a tick whose final decision is HOLD (no signal, tie, bullish while already
\* entered, bearish while unallocated or while no Position exists yet) creates
\* no Position row and queries no venue balance for allocation.
C38_HoldSkipsAllocation == FinalDecisionHold => AllocationDidNothing

\* C38 amended: the AllocationManager runs exactly when the signal names a
\* direction.  A tick with no signal or a tie never reaches it (no row, no
\* balance query); a tick with a directional signal always runs it before
\* reconciliation; a HOLD tick that found its Position row asks no balance and
\* creates no row, and one that found none has asked the balance once.
C38_AllocationRunsOnDirectionalSignal ==
    /\ (op = "update" /\ pc = "done" /\ ~DirectionalSignal) =>
          /\ allocOutcome = "none"
          /\ AllocationDidNothing
    /\ (op = "update" /\ DirectionalSignal /\ pc \notin {"idle", "alloc"}) =>
          allocOutcome # "none"
    /\ (FinalDecisionHold /\ allocOutcome = "exists") => AllocationDidNothing
    /\ (FinalDecisionHold /\ allocOutcome = "created") =>
          /\ allocQueries = 1
          /\ Cardinality({i \in DOMAIN writes : writes[i].op = "upsert"}) = 1

\* A HOLD tick that created the Position row: an exit signal, no row yet.
C38_Witness ==
    /\ FinalDecisionHold
    /\ decision = "hold"
    /\ ~SignalWantsLong
    /\ allocOutcome = "created"

\* A tie that ended before the allocation.
C38_WitnessTie ==
    /\ pc = "done" /\ op = "update" /\ agent = BTC_HL
    /\ sig.bullish = 1 /\ sig.bearish = 1
    /\ allocOutcome = "none"

(* C39 *)
ExitSignal ==
    IF agent = ETH_HL THEN sig.direction = "SHORT" ELSE sig.bearish > sig.bullish

VenueLong == hlPos.has /\ hlPos.szi > 0

\* The state a filled open leaves: the row says LONG and the venue holds a
\* positive size.  The state a filled close leaves: FLAT and no long.
EnteredState ==
    /\ IsPerp(agent) /\ StoredRow # NoPosition /\ StoredSide = "LONG" /\ VenueLong
ExitedState ==
    /\ IsPerp(agent) /\ StoredRow # NoPosition /\ StoredSide = "FLAT" /\ ~VenueLong

\* The step belongs to a run of update ticks that all carry the signal: it is
\* not part of an unwind, and the tick it is in (or starts) carries it.
StepOfTicksWith(carries, carriesNext) ==
    /\ op # "unwind" /\ op' # "unwind"
    /\ op = "update" => carries
    /\ op' = "update" => carriesNext

\* C39: repeated entry signals enter once.  A filled open leaves the row LONG
\* (and, the venue then reporting a positive size, the entered state); from
\* then on, through any number of sequential ticks
\* that carry an entry signal and for as long as the venue keeps a positive
\* size, no step submits an order or writes to the PositionStore.
\* Symmetrically a filled close leaves the row FLAT and the venue flat, and
\* while it stays flat no tick carrying an exit signal submits an order.
C39_RepeatedSignalsActOnce ==
    [][/\ (pc = "decide" /\ decision' = "open" /\ result'.status = "filled")
          => /\ StoredSide' = "LONG"
             /\ VenueLong' => EnteredState'
       /\ (pc = "decide" /\ decision' = "close" /\ result'.status = "filled")
          => ExitedState'
       /\ (/\ EnteredState /\ VenueLong'
           /\ StepOfTicksWith(SignalWantsLong, SignalWantsLong'))
          => /\ store' = store
             /\ Len(writes') <= Len(writes)
             /\ Len(orders') <= Len(orders)
             /\ EnteredState'
       /\ (/\ ExitedState /\ ~VenueLong'
           /\ StepOfTicksWith(ExitSignal, ExitSignal'))
          => /\ Len(orders') <= Len(orders)
             /\ ExitedState']_vars

\* A later tick with an entry signal that went through allocation,
\* reconciliation and the decision on a stored LONG and held.
C39_Witness ==
    /\ pc = "done" /\ op = "update" /\ SignalWantsLong
    /\ EnteredState
    /\ allocOutcome = "exists" /\ recQuery = "ok" /\ decision = "hold"
    /\ writes = <<>> /\ orders = <<>>

\* The tick whose open filled.
C39_WitnessFilled ==
    /\ pc = "done" /\ decision = "open" /\ result.status = "filled"
    /\ EnteredState

C40_WitnessUnwindEmpty ==
    /\ IsSpot(agent) /\ pc = "done" /\ decision = "unwind"
    /\ result.status = "no_balance"
    /\ orders = <<>>
    /\ StoredSide = "USDC"

(* C31 *)
RowsOf(s, k) == {r \in s : r.agent_name = k}

\* The table after a tick's PositionStore calls, in order, on the rows s.
RECURSIVE ApplyWrites(_, _, _)
ApplyWrites(s, k, ws) ==
    IF ws = <<>> THEN s
    ELSE ApplyWrites(IF Head(ws).op = "upsert"
                     THEN upsert_position(s, k, NewPerpPosition(k, ConcCap))
                     ELSE update_position_side(s, k, Head(ws).side),
                     k, Tail(ws))

DifferentKeys == conc.ticks[1].key # conc.ticks[2].key
BothDone == \A t \in 1..2 : conc.ticks[t].pc = "done"

HasUpsert(t) ==
    \E i \in 1..Len(conc.ticks[t].writes) : conc.ticks[t].writes[i].op = "upsert"

\* C32: the uniqueness constraint prevents duplicate rows under a race.  The
\* table never holds two rows of one key; when two ticks of the same key both
\* found the Position absent and both ran the upsert of ensure_allocation,
\* exactly one row of that key exists.
C32_OneRowUnderRace ==
    /\ \A k \in ConcKeys : Cardinality(RowsOf(store, k)) <= 1
    /\ (~DifferentKeys /\ HasUpsert(1) /\ HasUpsert(2)) =>
          Cardinality(RowsOf(store, conc.ticks[1].key)) = 1

\* Both ticks of one key found no row and both upserted; the second upsert
\* came after the first tick had already changed the side of its row.
C32_Witness ==
    /\ ~DifferentKeys /\ HasUpsert(1) /\ HasUpsert(2)
    /\ \E t \in 1..2 : Len(conc.ticks[t].writes) >= 2
    /\ Cardinality(RowsOf(store, conc.ticks[1].key)) = 1

(* C33 *)
OpenOrders(t) ==
    {i \in 1..Len(conc.ticks[t].orders) : conc.ticks[t].orders[i].kind = "open"}
FilledOpens(t) ==
    {i \in OpenOrders(t) : conc.ticks[t].orders[i].filled}
BothEntry == \A t \in 1..2 : WantLong(conc.ticks[t].key, conc.ticks[t].sig)

\* C33: no per-key locking.  When two ticks of one key, both carrying an
\* entry signal, run one after the other and the first one's open order
\* fills, the second submits no order: one entry.  When they overlap, nothing
\* orders their steps: both can reconcile to FLAT before either writes and
\* both submit an open order (the double entry is the witness below).
C33_SequentialEntersOnce ==
    (/\ ~DifferentKeys /\ BothEntry /\ BothDone /\ ~conc.overlap
     /\ conc.first # 0
     /\ FilledOpens(IF conc.first = 0 THEN 1 ELSE conc.first) # {})
    => conc.ticks[Other(conc.first)].orders = <<>>

\* The double entry: two overlapping ticks of one key, both reconciled to
\* FLAT, both submitted an open order, both orders filled.
C33_Witness ==
    /\ ~DifferentKeys /\ BothEntry /\ BothDone /\ conc.overlap
    /\ \A t \in 1..2 : conc.ticks[t].side = "FLAT" /\ FilledOpens(t) # {}
    /\ conc.szi[COIN(conc.ticks[1].key)] >= 2

\* The sequential case: the first tick's open filled, the second held.
C33_WitnessSequential ==
    /\ ~DifferentKeys /\ BothEntry /\ BothDone /\ ~conc.overlap
    /\ conc.first # 0
    /\ FilledOpens(IF conc.first = 0 THEN 1 ELSE conc.first) # {}
    /\ conc.ticks[Other(IF conc.first = 0 THEN 1 ELSE conc.first)].side = "LONG"

====
